---- MODULE Spec2Model ----
(***************************************************************************)
(* A model of the filesystem-operations layer of src/main/native/          *)
(* unix_jni.cc: the JNI entry points of NativePosixFiles (StatCommon,      *)
(* mkdir, mkdirs, readdir, unlink/remove) on top of a small model of the   *)
(* POSIX calls they make.                                                  *)
(*                                                                         *)
(* Strings are sequences of one-character strings, so that the code's      *)
(* character-level walks (mkdirs' search for '/', readdir's test for "."   *)
(* and "..") are computed as the code computes them.  errno values are     *)
(* named by strings ("ENOENT"); "0" is errno 0.                            *)
(***************************************************************************)
EXTENDS Integers, Sequences, FiniteSets, TLC

VARIABLES fs, call, prev, mk, rd, md, xa, ren

vars == <<fs, call, prev, mk, rd, md, xa, ren>>

(***************************************************************************)
(* Bounds of the model.                                                    *)
(***************************************************************************)
\* Depth of the directory chain a/b/c/... the paths are taken from.
MaxDepth == 3
\* Number of injected syscall failures in one call.
MaxFaults == 1
\* Number of concurrent mkdirs callers.
NumProcs == 2
\* Number of entries of the directory that readdir lists.
MaxDirLen == 3
MaxFileLen == 3
BufSize == 2
ValueSize == 2

(***************************************************************************)
(* errno values and exceptions.                                            *)
(***************************************************************************)
\* The codes PostException's switch lists, and ESTALE as one it does not.
Errnos ==
  {"EFAULT", "EBADF", "ETIMEDOUT", "ENOENT", "EACCES", "EPERM", "EINTR",
   "ENOMEM", "ENOSYS", "ENOTSUP", "ENAMETOOLONG", "ENODATA", "EINVAL",
   "EMULTIHOP", "ENOLINK", "EIO", "EAGAIN", "EFBIG", "EPIPE", "ENOSPC",
   "EXDEV", "EROFS", "EEXIST", "EMLINK", "ELOOP", "EISDIR", "ENOTDIR",
   "ENOTEMPTY", "EBUSY", "ENFILE", "EMFILE", "ESTALE"}

\* The exception class PostException selects (buggy variant: EPERM gets
\* the class of EACCES).
ExceptionClassPermAsAccess(error_number) ==
  CASE error_number \in {"EFAULT", "EBADF"} -> "InvalidArgument"
    [] error_number = "ETIMEDOUT" -> "Timeout"
    [] error_number = "ENOENT" -> "NotFound"
    [] error_number \in {"EACCES", "EPERM"} -> "PermissionDenied"
    [] error_number = "EINTR" -> "Interrupted"
    [] error_number = "ENOMEM" -> "OutOfMemory"
    [] error_number \in {"ENOSYS", "ENOTSUP"} -> "Unsupported"
    [] OTHER -> "GenericIO"

\* The Java exception class PostException selects, as the spec's ErrorKind.
ExceptionClass(error_number) ==
  CASE error_number \in {"EFAULT", "EBADF"} -> "InvalidArgument"
    [] error_number = "ETIMEDOUT" -> "Timeout"
    [] error_number = "ENOENT" -> "NotFound"
    [] error_number = "EACCES" -> "PermissionDenied"
    [] error_number = "EPERM" -> "OperationNotPermitted"
    [] error_number = "EINTR" -> "Interrupted"
    [] error_number = "ENOMEM" -> "OutOfMemory"
    [] error_number \in {"ENOSYS", "ENOTSUP"} -> "Unsupported"
    [] OTHER -> "GenericIO"

\* PostException: the exception thrown for error_number with a message.
PostException(error_number, message) ==
  [kind |-> ExceptionClass(error_number), code |-> error_number,
   msg |-> message]

\* PostFileException: the message is filename + " (" + ErrorMessage + ")".
PostFileException(error_number, filename) ==
  PostException(error_number, [file |-> filename, text |-> error_number])

\* The codes the narrow classifier throws for (buggy variant: also ENOSYS,
\* as the general classifier's Unsupported case has it).
RuntimeErrnosWithENOSYS == {"EFAULT", "EBADF", "ENOMEM", "ENOTSUP", "ENOSYS"}

\* The codes PostRuntimeException's switch gives an exception class.
RuntimeErrnos == {"EFAULT", "EBADF", "ENOMEM", "ENOTSUP"}

\* PostRuntimeException: the exceptions it throws (none when it returns
\* false), with the class its own switch selects.
PostRuntimeException(error_number, file_path) ==
  IF error_number \in RuntimeErrnos
  THEN << [kind |-> (CASE error_number \in {"EFAULT", "EBADF"} -> "InvalidArgument"
                       [] error_number = "ENOMEM" -> "OutOfMemory"
                       [] OTHER -> "Unsupported"),
           code |-> error_number,
           msg |-> [file |-> file_path, text |-> error_number]] >>
  ELSE << >>

(***************************************************************************)
(* Paths and the filesystem.                                               *)
(***************************************************************************)
\* The name of the directory at depth i of the chain.
NameAt(i) == << <<"a">>, <<"b">>, <<"c">>, <<"d">>, <<"e">> >>[i]

RECURSIVE NodeAt(_)
\* The node (sequence of component names) at depth i; <<>> is the root,
\* which is also the working directory.
NodeAt(i) == IF i = 0 THEN << >> ELSE Append(NodeAt(i - 1), NameAt(i))

Nodes == {NodeAt(i) : i \in 1..MaxDepth}

RECURSIVE RelPath(_)
\* The relative path string a/b/... of depth i.
RelPath(i) ==
  IF i = 1 THEN NameAt(1) ELSE RelPath(i - 1) \o <<"/">> \o NameAt(i)

\* The absolute path string /a/b/... of depth i.
AbsPath(i) == <<"/">> \o RelPath(i)

RelPaths == {RelPath(i) : i \in 1..MaxDepth}
AbsPaths == {AbsPath(i) : i \in 1..MaxDepth}

\* What a directory entry can be: absent, a directory, a regular file, a
\* dangling symbolic link, a symbolic link to a regular file.
Types == {"none", "dir", "file", "lnk_dangling", "lnk_file"}

\* The filesystems: an entry exists only inside a directory.
FsStates ==
  {f \in [Nodes -> Types] :
     \A i \in 2..MaxDepth : f[NodeAt(i)] # "none" => f[NodeAt(i - 1)] = "dir"}

RECURSIVE Comps(_, _, _)
\* The components of path string s from position i on, cur being the
\* component read so far: split at '/', empty components dropped.
Comps(s, i, cur) ==
  IF i > Len(s)
  THEN IF cur = << >> THEN << >> ELSE <<cur>>
  ELSE IF s[i] = "/"
       THEN (IF cur = << >> THEN << >> ELSE <<cur>>) \o Comps(s, i + 1, << >>)
       ELSE Comps(s, i + 1, Append(cur, s[i]))

Components(s) == Comps(s, 1, << >>)

Lookup(f, node) ==
  IF node = << >> THEN "dir"
  ELSE IF node \in DOMAIN f THEN f[node] ELSE "none"

\* Path resolution up to the parent of the last component: "0", or the
\* errno of the first component that is not a directory.
WalkErr(f, s) ==
  LET cs == Components(s)
      bad == {i \in 1..(Len(cs) - 1) : Lookup(f, SubSeq(cs, 1, i)) # "dir"}
  IN IF s = << >> THEN "ENOENT"
     ELSE IF bad = {} THEN "0"
     ELSE LET i == CHOOSE k \in bad : \A m \in bad : k <= m
              t == Lookup(f, SubSeq(cs, 1, i))
          IN IF t \in {"file", "lnk_file"} THEN "ENOTDIR" ELSE "ENOENT"

\* stat(2) (follow) and lstat(2): errno and, on success, the file type
\* that st_mode holds.
StatSys(f, s, follow) ==
  LET t == Lookup(f, Components(s))
      w == WalkErr(f, s)
  IN IF w # "0" THEN [err |-> w, mode |-> "none"]
     ELSE IF t = "none" THEN [err |-> "ENOENT", mode |-> "none"]
     ELSE IF t \in {"dir", "file"} THEN [err |-> "0", mode |-> t]
     ELSE IF ~follow THEN [err |-> "0", mode |-> "lnk"]
     ELSE IF t = "lnk_file" THEN [err |-> "0", mode |-> "file"]
     ELSE [err |-> "ENOENT", mode |-> "none"]

\* mkdir(2): errno and the filesystem afterwards.
MkdirSys(f, s) ==
  LET node == Components(s)
      w == WalkErr(f, s)
  IN IF w # "0" THEN [err |-> w, fs |-> f]
     ELSE IF Lookup(f, node) # "none" THEN [err |-> "EEXIST", fs |-> f]
     ELSE IF node \notin DOMAIN f THEN [err |-> "ENOSPC", fs |-> f]
     ELSE [err |-> "0", fs |-> [f EXCEPT ![node] = "dir"]]

HasChild(f, node) ==
  \E n \in DOMAIN f :
    /\ Len(n) = Len(node) + 1
    /\ SubSeq(n, 1, Len(node)) = node
    /\ f[n] # "none"

\* unlink(2): the possible outcomes (a directory gives EISDIR on Linux,
\* EPERM elsewhere).
UnlinkSys(f, s) ==
  LET node == Components(s)
      w == WalkErr(f, s)
      t == Lookup(f, node)
  IN IF w # "0" THEN {[err |-> w, fs |-> f]}
     ELSE IF t = "none" THEN {[err |-> "ENOENT", fs |-> f]}
     ELSE IF t = "dir" \/ node = << >>
          THEN {[err |-> e, fs |-> f] : e \in {"EISDIR", "EPERM"}}
     ELSE {[err |-> "0", fs |-> [f EXCEPT ![node] = "none"]]}

\* remove(3): unlink for a non-directory, rmdir for a directory.
RemoveSys(f, s) ==
  LET node == Components(s)
      w == WalkErr(f, s)
      t == Lookup(f, node)
  IN IF w # "0" THEN {[err |-> w, fs |-> f]}
     ELSE IF t = "none" THEN {[err |-> "ENOENT", fs |-> f]}
     ELSE IF node = << >> THEN {[err |-> "EBUSY", fs |-> f]}
     ELSE IF t = "dir" /\ HasChild(f, node)
          THEN {[err |-> "ENOTEMPTY", fs |-> f]}
     ELSE {[err |-> "0", fs |-> [f EXCEPT ![node] = "none"]]}

(***************************************************************************)
(* State of the other parts of the model while they are not running.       *)
(***************************************************************************)
Procs == 1..NumProcs

\* A mkdirs caller before its call: path_chars, the offset p into it, what
\* it has thrown; and, for the properties, the number of injected
\* failures, of stat and mkdir calls made and of directories created, and
\* what stood at the target when the call started (pre).
MkInit ==
  [pc |-> "idle", path |-> << >>, p |-> 0, thrown |-> << >>, faults |-> 0,
   nstat |-> 0, nmkdir |-> 0, ncreated |-> 0, pre |-> "none",
   stop |-> "none", raced |-> FALSE, inj |-> "none"]

MkIdle == [i \in Procs |-> MkInit]

\* An md5sumAsBytes call before it starts: the file's bytes (content), the
\* descriptor's state and offset, the buffer, the digest's state, errno,
\* what was returned and thrown; and, for the properties, the bytes fed to
\* the digest, the numbers of close calls and of injected failures, the
\* result of the call before this one, the number of calls so far, the
\* errno of the read that ended the loop and what close gave.
MdIdle ==
  [pc |-> "idle", content |-> << >>, fd |-> "none", off |-> 0,
   buf |-> << >>, digest |-> 0, errno |-> "0", res |-> "none",
   ret |-> [cls |-> "none", value |-> 0], thrown |-> << >>, fed |-> << >>,
   closes |-> 0, faults |-> 0, first |-> [cls |-> "none", value |-> 0],
   ncalls |-> 0, readerr |-> "none", closeerr |-> "none"]

\* A getxattr or lgetxattr call before it starts: which of the two
\* (follow), the path, the attribute as the file holds it (attr), the
\* buffer value, what the getxattr function gave (size, attr_not_found,
\* errno), what was returned and thrown, and the number of injected
\* failures.
XaIdle ==
  [pc |-> "idle", follow |-> TRUE, path |-> << >>,
   attr |-> [present |-> FALSE, bytes |-> << >>], value |-> << >>,
   size |-> 0, attr_not_found |-> FALSE, errno |-> "0",
   ret |-> [cls |-> "none", bytes |-> << >>], thrown |-> << >>,
   faults |-> 0]

\* A rename call before it starts: the two paths, the errno of rename(2),
\* what was thrown, the filesystem before the call and the number of
\* injected failures.
RenIdle ==
  [pc |-> "idle", oldpath |-> << >>, newpath |-> << >>, err |-> "0",
   thrown |-> << >>, fs0 |-> << >>, faults |-> 0]

\* A readdir call before it starts: read_types, the entries the directory
\* stream has still to give (dir), the state of dirh and of path_chars,
\* errno, the vectors entries and types, what was thrown and returned; and,
\* for the properties, the names the stream held at first (all), the last
\* entry fetched with its d_type and what fstatat gave for it (last), and
\* the numbers of swallowed fetch errors, of injected failures and of
\* closedir calls, whether readdir gave the end of the stream (eof) and
\* what the closedir after it gave (closeerr).
RdIdle ==
  [pc |-> "idle", read_types |-> "n", dir |-> << >>, all |-> << >>,
   dirh |-> "null", path_chars |-> "live", errno |-> "0",
   entries |-> << >>, types |-> << >>, thrown |-> << >>,
   ret |-> [cls |-> "none", names |-> << >>, types |-> << >>, typed |-> FALSE],
   last |-> [name |-> << >>, d_type |-> "none", st |-> "none"],
   swallowed |-> 0, faults |-> 0, closes |-> 0,
   eof |-> FALSE, closeerr |-> "none", read_released |-> FALSE, spin |-> 0]

(***************************************************************************)
(* Single-syscall path operations, one call at a time: StatCommon (stat,   *)
(* lstat, errnoStat, errnoLstat), mkdir, unlink and remove.                *)
(* call is the call in progress, prev a summary of the call before it.     *)
(***************************************************************************)
StatOps == {"stat", "lstat", "errnoStat", "errnoLstat"}
DeleteOps == {"unlink", "remove"}
Ops == StatOps \cup {"mkdir"} \cup DeleteOps

\* The stat_function and should_throw the four entry points pass.
FollowOf(op) == op \in {"stat", "errnoStat"}
ShouldThrow(op) == op \in {"stat", "lstat"}

\* The fields of a result that carries no stat buffer.
NoMeta ==
  [atime |-> 0, atimeNanos |-> 0, mtime |-> 0, mtimeNanos |-> 0,
   ctime |-> 0, ctimeNanos |-> 0, size |-> [hi |-> 0, lo |-> 0], dev |-> 0,
   ino |-> [hi |-> 0, lo |-> 0]]

NoRet == [cls |-> "none", errno |-> "0", mode |-> "none", meta |-> NoMeta]
Null == [cls |-> "null", errno |-> "0", mode |-> "none", meta |-> NoMeta]
JBool(b) ==
  [cls |-> IF b THEN "true" ELSE "false", errno |-> "0", mode |-> "none",
   meta |-> NoMeta]

\* A 64-bit value of the stat buffer, as its two 32-bit halves.
Wide(hi, lo) == [hi |-> hi, lo |-> lo]

\* static_cast<int> of a 64-bit value: its low half.
CastInt(v) == v.lo

\* The stat buffer that a successful stat_function call fills in for the
\* file of type mode at depth d: every file has its own inode, sizes and
\* times, wider than 32 bits where the platform's fields are.
StatBufOf(mode, d) ==
  LET k == IF mode = "dir" THEN 1 ELSE IF mode = "file" THEN 2 ELSE 3
  IN [st_mode |-> mode,
      st_atim |-> [tv_sec |-> Wide(1, 100 + d), tv_nsec |-> 10 + k],
      st_mtim |-> [tv_sec |-> Wide(1, 200 + d), tv_nsec |-> 20 + k],
      st_ctim |-> [tv_sec |-> Wide(1, 300 + d), tv_nsec |-> 30 + k],
      st_size |-> Wide(k, 40 + d),
      st_dev |-> Wide(1, 5),
      st_ino |-> Wide(d, 3 * d + k)]

\* The stat buffer of a call that stored nothing in it.
UninitStatBuf == StatBufOf("uninit", 0)

\* The stat buffer that stat(2) (follow) or lstat(2) fills in for path s
\* when it succeeds; the file a symbolic link leads to is another file
\* than the link.
StatBuf(f, s, follow) ==
  LET r == StatSys(f, s, follow)
      t == Lookup(f, Components(s))
      d == Len(Components(s))
  IN IF r.err # "0" THEN UninitStatBuf
     ELSE IF follow /\ t = "lnk_file" THEN StatBufOf(r.mode, d + MaxDepth)
     ELSE StatBufOf(r.mode, d)

\* StatSeconds and StatNanoSeconds of unix_jni.h, which return int.
StatSeconds(statbuf, t) ==
  CastInt(CASE t = "STAT_ATIME" -> statbuf.st_atim.tv_sec
            [] t = "STAT_MTIME" -> statbuf.st_mtim.tv_sec
            [] OTHER -> statbuf.st_ctim.tv_sec)

StatNanoSeconds(statbuf, t) ==
  CASE t = "STAT_ATIME" -> statbuf.st_atim.tv_nsec
    [] t = "STAT_MTIME" -> statbuf.st_mtim.tv_nsec
    [] OTHER -> statbuf.st_ctim.tv_nsec

\* The arguments of the "(IIIIIIIJIJ)V" constructors after st_mode.
CtorArgs(stat_ref) ==
  [atime |-> StatSeconds(stat_ref, "STAT_ATIME"),
   atimeNanos |-> StatNanoSeconds(stat_ref, "STAT_ATIME"),
   mtime |-> StatSeconds(stat_ref, "STAT_MTIME"),
   mtimeNanos |-> StatNanoSeconds(stat_ref, "STAT_MTIME"),
   ctime |-> StatSeconds(stat_ref, "STAT_CTIME"),
   ctimeNanos |-> StatNanoSeconds(stat_ref, "STAT_CTIME"),
   size |-> stat_ref.st_size,
   dev |-> CastInt(stat_ref.st_dev),
   ino |-> stat_ref.st_ino]

\* NewFileStatus: the FileStatus built from the stat buffer.
NewFileStatus(stat_ref) ==
  [cls |-> "FileStatus", errno |-> "0", mode |-> stat_ref.st_mode,
   meta |-> CtorArgs(stat_ref)]

\* NewErrnoFileStatus (buggy variant: always the stat-buffer constructor).
NewErrnoFileStatusNoError(saved_errno, stat_ref) ==
  [cls |-> "ErrnoFileStatus", errno |-> "0", mode |-> stat_ref.st_mode,
   meta |-> CtorArgs(stat_ref)]

\* NewErrnoFileStatus (buggy variant: the modification and status-change
\* times change places).
NewErrnoFileStatusSwapped(saved_errno, stat_ref) ==
  IF saved_errno # "0"
  THEN [cls |-> "ErrnoFileStatus", errno |-> saved_errno, mode |-> "none",
        meta |-> NoMeta]
  ELSE [cls |-> "ErrnoFileStatus", errno |-> "0", mode |-> stat_ref.st_mode,
        meta |-> [CtorArgs(stat_ref) EXCEPT
                    !.mtime = StatSeconds(stat_ref, "STAT_CTIME"),
                    !.ctime = StatSeconds(stat_ref, "STAT_MTIME")]]

\* NewErrnoFileStatus: the error constructor when saved_errno is not 0,
\* the stat-buffer constructor otherwise.
NewErrnoFileStatus(saved_errno, stat_ref) ==
  IF saved_errno # "0"
  THEN [cls |-> "ErrnoFileStatus", errno |-> saved_errno, mode |-> "none",
        meta |-> NoMeta]
  ELSE [cls |-> "ErrnoFileStatus", errno |-> "0", mode |-> stat_ref.st_mode,
        meta |-> CtorArgs(stat_ref)]

\* StatCommon after its retry loop (buggy variant: errno is not saved).
StatCommonResultErrnoNotSaved(path_chars, should_throw, r_errno, statbuf) ==
  LET saved_errno == "0"
      rt == PostRuntimeException(r_errno, path_chars)
  IN IF r_errno # "0" /\ rt # << >>
     THEN [thrown |-> rt, ret |-> Null]
     ELSE IF r_errno # "0" /\ should_throw
     THEN [thrown |-> <<PostFileException(r_errno, path_chars)>>,
           ret |-> Null]
     ELSE [thrown |-> << >>,
           ret |-> IF should_throw THEN NewFileStatus(statbuf)
                   ELSE NewErrnoFileStatus(saved_errno, statbuf)]

\* StatCommon with both classifiers throwing for one failure (buggy
\* variant).
StatCommonResultBothPost(path_chars, should_throw, r_errno, statbuf) ==
  LET saved_errno == r_errno
      rt == PostRuntimeException(saved_errno, path_chars)
  IN IF r_errno # "0" /\ should_throw
     THEN [thrown |-> rt \o <<PostFileException(saved_errno, path_chars)>>,
           ret |-> Null]
     ELSE IF r_errno # "0" /\ rt # << >>
     THEN [thrown |-> rt, ret |-> Null]
     ELSE [thrown |-> << >>,
           ret |-> IF should_throw THEN NewFileStatus(statbuf)
                   ELSE NewErrnoFileStatus(saved_errno, statbuf)]

\* StatCommon after its retry loop: r_errno is "0" when the last
\* stat_function call returned 0, its errno otherwise; statbuf is the
\* buffer the call filled in (UninitStatBuf when it stored nothing).
StatCommonResult(path_chars, should_throw, r_errno, statbuf) ==
  LET saved_errno == r_errno
      rt == PostRuntimeException(saved_errno, path_chars)
  IN IF r_errno # "0" /\ rt # << >>
     THEN [thrown |-> rt, ret |-> Null]
     ELSE IF r_errno # "0" /\ should_throw
     THEN [thrown |-> <<PostFileException(saved_errno, path_chars)>>,
           ret |-> Null]
     ELSE [thrown |-> << >>,
           ret |-> IF should_throw THEN NewFileStatus(statbuf)
                   ELSE NewErrnoFileStatus(saved_errno, statbuf)]

\* mkdir's result for the errno of its mkdir(2) call (buggy variant: EEXIST
\* is thrown like any other failure).
MkdirResultThrowsEexist(path_chars, err) ==
  [ret |-> JBool(TRUE),
   thrown |-> IF err # "0" THEN <<PostFileException(err, path_chars)>>
              ELSE << >>]

\* mkdir's result when EEXIST leaves the initial result, true (buggy
\* variant).
MkdirResultEexistTrue(path_chars, err) ==
  [ret |-> JBool(TRUE),
   thrown |-> IF err # "0" /\ err # "EEXIST"
              THEN <<PostFileException(err, path_chars)>>
              ELSE << >>]

\* NativePosixFiles.mkdir after its mkdir(2) call: EEXIST gives false, any
\* other failure an exception (and the initial result, true).
MkdirResult(path_chars, err) ==
  [ret |-> JBool(~(err # "0" /\ err = "EEXIST")),
   thrown |-> IF err # "0" /\ err # "EEXIST"
              THEN <<PostFileException(err, path_chars)>>
              ELSE << >>]

\* unlink_err (buggy variants: absorbs ENOTDIR as remove_err does; absorbs
\* nothing).
unlink_err_as_remove(err) == err = "ENOENT" \/ err = "ENOTDIR"
unlink_err_nothing(err) == FALSE

unlink_err(err) == err = "ENOENT"
remove_err(err) == err = "ENOENT" \/ err = "ENOTDIR"

error_function(op, err) ==
  IF op = "unlink" THEN unlink_err(err) ELSE remove_err(err)

\* delete_common returning true also for a failure it absorbs (buggy
\* variant).
DeleteResultAbsorbedTrue(op, path_chars, err) ==
  LET ok == err = "0"
  IN [ret |-> JBool(ok \/ error_function(op, err)),
      thrown |-> IF ~ok /\ ~error_function(op, err)
                 THEN <<PostFileException(err, path_chars)>>
                 ELSE << >>]

\* delete_common after its delete_function call: a failure that
\* error_function does not absorb is thrown; the result is ok.
DeleteResult(op, path_chars, err) ==
  LET ok == err = "0"
  IN [ret |-> JBool(ok),
      thrown |-> IF ~ok /\ ~error_function(op, err)
                 THEN <<PostFileException(err, path_chars)>>
                 ELSE << >>]

Idle ==
  [pc |-> "idle", op |-> "none", path |-> << >>, err |-> "0", ret |-> NoRet,
   thrown |-> << >>, fs0 |-> fs, faults |-> 0]

NoPrev ==
  [op |-> "none", path |-> << >>, cls |-> "none", mode |-> "none",
   meta |-> NoMeta]

\* A caller invokes one of the operations on a path.
Invoke ==
  /\ call.pc = "idle"
  /\ \E op \in Ops, path \in RelPaths :
       call' = [call EXCEPT !.pc = "sys", !.op = op, !.path = path,
                            !.fs0 = fs]
  /\ UNCHANGED <<fs, prev, mk, rd, md, xa, ren>>

\* An injected failure of a syscall: any errno, the filesystem untouched.
CanFault(c) == c.faults < MaxFaults

\* StatCommon's loop never repeats the call (buggy variant).
LoopAgainNever(r_errno) == FALSE

\* The condition of StatCommon's loop after a call that failed with
\* r_errno ("0" when it did not fail): "r == -1 && errno == EINTR".
LoopAgain(r_errno) == r_errno = "EINTR"

\* One pass of StatCommon's loop: stat_function is called; EINTR repeats
\* the loop, anything else ends the call.
StatCommonStep ==
  /\ call.pc = "sys"
  /\ call.op \in StatOps
  /\ \E out \in {[r |-> StatSys(fs, call.path, FollowOf(call.op)), fault |-> 0]}
                \cup {[r |-> [err |-> e, mode |-> "uninit"], fault |-> 1] :
                        e \in IF CanFault(call) THEN Errnos ELSE {}} :
       IF LoopAgain(out.r.err)
       THEN call' = [call EXCEPT !.faults = @ + out.fault]
       ELSE LET res == StatCommonResult(call.path, ShouldThrow(call.op),
                                        out.r.err,
                                        IF out.r.err = "0"
                                        THEN StatBuf(fs, call.path,
                                                     FollowOf(call.op))
                                        ELSE UninitStatBuf)
            IN call' = [call EXCEPT !.pc = "done", !.err = out.r.err,
                                    !.ret = res.ret, !.thrown = res.thrown,
                                    !.fs0 = fs, !.faults = @ + out.fault]
  /\ UNCHANGED <<fs, prev, mk, rd, md, xa, ren>>

\* NativePosixFiles.mkdir: one mkdir(2) call, not retried.
MkdirStep ==
  /\ call.pc = "sys"
  /\ call.op = "mkdir"
  /\ \E out \in {[r |-> MkdirSys(fs, call.path), fault |-> 0]}
                \cup {[r |-> [err |-> e, fs |-> fs], fault |-> 1] :
                        e \in IF CanFault(call) THEN Errnos ELSE {}} :
       LET res == MkdirResult(call.path, out.r.err)
       IN /\ fs' = out.r.fs
          /\ call' = [call EXCEPT
               !.pc = "done", !.err = out.r.err, !.fs0 = fs,
               !.faults = @ + out.fault,
               !.ret = res.ret, !.thrown = res.thrown]
  /\ UNCHANGED <<prev, mk, rd, md, xa, ren>>

\* delete_common when GetStringLatin1Chars gives no characters.
DeleteNoChars ==
  /\ call.pc = "sys"
  /\ call.op \in DeleteOps
  /\ call' = [call EXCEPT !.pc = "done", !.err = "0", !.ret = JBool(FALSE),
                          !.fs0 = fs]
  /\ UNCHANGED <<fs, prev, mk, rd, md, xa, ren>>

\* delete_common: one delete_function call, not retried.
DeleteStep ==
  /\ call.pc = "sys"
  /\ call.op \in DeleteOps
  /\ \E out \in {[r |-> x, fault |-> 0] :
                   x \in IF call.op = "unlink" THEN UnlinkSys(fs, call.path)
                         ELSE RemoveSys(fs, call.path)}
                \cup {[r |-> [err |-> e, fs |-> fs], fault |-> 1] :
                        e \in IF CanFault(call) THEN Errnos ELSE {}} :
       LET res == DeleteResult(call.op, call.path, out.r.err)
       IN /\ fs' = out.r.fs
          /\ call' = [call EXCEPT
               !.pc = "done", !.err = out.r.err, !.fs0 = fs,
               !.faults = @ + out.fault,
               !.ret = res.ret, !.thrown = res.thrown]
  /\ UNCHANGED <<prev, mk, rd, md, xa, ren>>

\* The call returns to its caller.
Return ==
  /\ call.pc = "done"
  /\ prev' = [op |-> call.op, path |-> call.path, cls |-> call.ret.cls,
              mode |-> call.ret.mode, meta |-> call.ret.meta]
  /\ call' = [Idle EXCEPT !.fs0 = fs]
  /\ UNCHANGED <<fs, mk, rd, md, xa, ren>>

Init ==
  /\ fs \in FsStates
  /\ call = Idle
  /\ prev = NoPrev
  /\ mk = MkIdle
  /\ rd = RdIdle
  /\ md = MdIdle
  /\ xa = XaIdle
  /\ ren = RenIdle

Next ==
  \/ Invoke
  \/ StatCommonStep
  \/ MkdirStep
  \/ DeleteNoChars
  \/ DeleteStep
  \/ Return

Spec == Init /\ [][Next]_vars

(***************************************************************************)
(* NativePosixFiles.mkdirs, called concurrently by the callers in Procs,   *)
(* each step one syscall and the code up to the next one.                  *)
(***************************************************************************)
\* The character at offset q of a C string (offsets start at 0).
CharAt(str, q) == str[q + 1]

\* path_chars cut at offset q by "*p = 0".
CutAt(str, q) == SubSeq(str, 1, q)

RECURSIVE BackScan(_, _)
\* The first loop from offset q down to the next '/' it stats a prefix at;
\* 0 when the loop ends with p == path_chars.
BackScan(path_chars, q) ==
  IF q > 0
  THEN IF CharAt(path_chars, q) = "/" THEN q ELSE BackScan(path_chars, q - 1)
  ELSE 0

RECURSIVE FwdScan(_, _)
\* The second loop from offset q up to the next '/' it calls mkdir at;
\* len when the loop ends.
FwdScan(path_chars, q) ==
  IF q < Len(path_chars)
  THEN IF CharAt(path_chars, q) = "/" THEN q ELSE FwdScan(path_chars, q + 1)
  ELSE Len(path_chars)

\* PostFileException(errno, path_chars); goto cleanup.
MkThrow(m, err) ==
  [m EXCEPT !.pc = "done",
            !.thrown = Append(@, PostFileException(err, m.path))]

\* goto cleanup without an exception.
MkFinish(m) == [m EXCEPT !.pc = "done"]

\* The second loop entered or continued at offset q.
EnterFwd(m, q) ==
  LET n == FwdScan(m.path, q)
  IN IF n < Len(m.path) THEN [m EXCEPT !.pc = "fwd", !.p = n]
     ELSE [m EXCEPT !.pc = "final", !.p = n]

\* The first loop entered or continued at offset q.
EnterBack(m, q) ==
  LET n == BackScan(m.path, q)
  IN IF n > 0 THEN [m EXCEPT !.pc = "back", !.p = n] ELSE EnterFwd(m, 0)

\* After the first stat (buggy variants: no early-out for a directory; a
\* non-directory is taken for the directory; ENOTDIR lets the call go on
\* as ENOENT does).
AfterStat0EnotdirGoesOn(m, r) ==
  IF r.err = "0"
  THEN IF r.mode # "dir" THEN MkThrow(m, "ENOTDIR") ELSE MkFinish(m)
  ELSE IF r.err \notin {"ENOENT", "ENOTDIR"} THEN MkThrow(m, r.err)
  ELSE EnterBack(m, Len(m.path) - 1)

AfterStat0NoEarlyOut(m, r) ==
  IF r.err = "0" /\ r.mode # "dir" THEN MkThrow(m, "ENOTDIR")
  ELSE IF r.err \notin {"0", "ENOENT"} THEN MkThrow(m, r.err)
  ELSE EnterBack(m, Len(m.path) - 1)

AfterStat0NoIsDir(m, r) ==
  IF r.err = "0" THEN MkFinish(m)
  ELSE IF r.err # "ENOENT" THEN MkThrow(m, r.err)
  ELSE EnterBack(m, Len(m.path) - 1)

\* After the first stat of the whole path.
AfterStat0(m, r) ==
  IF r.err = "0"
  THEN IF r.mode # "dir" THEN MkThrow(m, "ENOTDIR") ELSE MkFinish(m)
  ELSE IF r.err # "ENOENT" THEN MkThrow(m, r.err)
  ELSE EnterBack(m, Len(m.path) - 1)

\* After the stat of a prefix in the first loop, an interrupted stat
\* being made again (buggy variant).
AfterBackRetriesEintr(m, r) ==
  IF r.err = "EINTR" THEN m
  ELSE IF r.err = "0" THEN EnterFwd([m EXCEPT !.stop = r.mode], m.p)
  ELSE IF r.err # "ENOENT" THEN MkThrow(m, r.err)
  ELSE EnterBack(m, m.p - 1)

\* After the stat of the prefix before offset p in the first loop; stop
\* records the type of the prefix the loop breaks at.
AfterBack(m, r) ==
  IF r.err = "0" THEN EnterFwd([m EXCEPT !.stop = r.mode], m.p)
  ELSE IF r.err # "ENOENT" THEN MkThrow(m, r.err)
  ELSE EnterBack(m, m.p - 1)

\* After the mkdir of the prefix before offset p in the second loop.
AfterFwd(m, err) ==
  IF err # "0" /\ err # "EEXIST" THEN MkThrow(m, err)
  ELSE EnterFwd(m, m.p + 1)

\* After the mkdir of the whole path.
AfterFinal(m, err) ==
  IF err = "0" THEN MkFinish(m)
  ELSE IF err # "EEXIST" THEN MkThrow(m, err)
  ELSE [m EXCEPT !.pc = "restat"]

\* After the stat that follows an EEXIST of the last mkdir (buggy variant:
\* whatever exists will do).
AfterRestatNoIsDir(m, r) ==
  IF r.err # "0" THEN MkThrow(m, r.err)
  ELSE MkFinish(m)

\* After the stat that follows an EEXIST of the last mkdir.
AfterRestat(m, r) ==
  IF r.err # "0" THEN MkThrow(m, r.err)
  ELSE IF r.mode # "dir" THEN MkThrow(m, "ENOTDIR")
  ELSE MkFinish(m)

\* What stands in the way of path in f: the type of the first entry along
\* it that is not a directory, "dir" when the target is a directory,
\* "none" when the existing prefixes are directories and the rest missing.
PreOf(f, path) ==
  LET cs == Components(path)
      nd == {k \in 1..Len(cs) : Lookup(f, SubSeq(cs, 1, k)) # "dir"}
  IN IF nd = {} THEN "dir"
     ELSE Lookup(f, SubSeq(cs, 1, CHOOSE k \in nd : \A j \in nd : k <= j))

\* The errnos with which a syscall of mkdirs is made to fail.
MkFaultErrnos == {"EINTR", "EACCES"}

\* The outcomes of a stat in mkdirs: the filesystem's, or a failure with
\* one of the errnos F.
MkStatOutcomes(m, s, F) ==
  {[r |-> StatSys(fs, s, TRUE), fault |-> 0]}
  \cup {[r |-> [err |-> e, mode |-> "none"], fault |-> 1] :
          e \in IF m.faults < MaxFaults THEN F ELSE {}}

\* The outcomes of a mkdir in mkdirs.
MkMkdirOutcomes(m, s, F) ==
  {[r |-> MkdirSys(fs, s), fault |-> 0]}
  \cup {[r |-> [err |-> e, fs |-> fs], fault |-> 1] :
          e \in IF m.faults < MaxFaults THEN F ELSE {}}

MkCountStat(m, out) ==
  [m EXCEPT !.nstat = @ + 1, !.faults = @ + out.fault,
            !.inj = IF out.fault = 1 THEN out.r.err ELSE @]

MkCountMkdir(m, out) ==
  [m EXCEPT !.nmkdir = @ + 1, !.faults = @ + out.fault,
            !.inj = IF out.fault = 1 THEN out.r.err ELSE @,
            !.ncreated = @ + (IF out.r.err = "0" THEN 1 ELSE 0)]

\* Caller i calls mkdirs on a path.
MkdirsInvoke(i) ==
  /\ mk[i].pc = "idle"
  /\ \E path \in RelPaths \cup AbsPaths :
       mk' = [mk EXCEPT ![i] = [@ EXCEPT !.pc = "stat0", !.path = path,
                                         !.pre = PreOf(fs, path)]]
  /\ UNCHANGED <<fs, call, prev, rd, md, xa, ren>>

\* The first stat, and the first loop up to its first stat.
MkdirsStat0(i, F) ==
  /\ mk[i].pc = "stat0"
  /\ \E out \in MkStatOutcomes(mk[i], mk[i].path, F) :
       mk' = [mk EXCEPT ![i] = AfterStat0(MkCountStat(@, out), out.r)]
  /\ UNCHANGED <<fs, call, prev, rd, md, xa, ren>>

\* A stat of the first loop, and the code up to the next syscall.
MkdirsBack(i, F) ==
  /\ mk[i].pc = "back"
  /\ \E out \in MkStatOutcomes(mk[i], CutAt(mk[i].path, mk[i].p), F) :
       mk' = [mk EXCEPT ![i] = AfterBack(MkCountStat(@, out), out.r)]
  /\ UNCHANGED <<fs, call, prev, rd, md, xa, ren>>

\* A mkdir of the second loop, and the code up to the next syscall.
MkdirsFwd(i, F) ==
  /\ mk[i].pc = "fwd"
  /\ \E out \in MkMkdirOutcomes(mk[i], CutAt(mk[i].path, mk[i].p), F) :
       /\ fs' = out.r.fs
       /\ mk' = [mk EXCEPT ![i] = AfterFwd(MkCountMkdir(@, out), out.r.err)]
  /\ UNCHANGED <<call, prev, rd, md, xa, ren>>

\* The mkdir of the whole path.
MkdirsFinal(i, F) ==
  /\ mk[i].pc = "final"
  /\ \E out \in MkMkdirOutcomes(mk[i], mk[i].path, F) :
       /\ fs' = out.r.fs
       /\ mk' = [mk EXCEPT ![i] = AfterFinal(MkCountMkdir(@, out), out.r.err)]
  /\ UNCHANGED <<call, prev, rd, md, xa, ren>>

\* The stat after the last mkdir failed with EEXIST.
MkdirsRestat(i, F) ==
  /\ mk[i].pc = "restat"
  /\ \E out \in MkStatOutcomes(mk[i], mk[i].path, F) :
       mk' = [mk EXCEPT ![i] = AfterRestat(MkCountStat(@, out), out.r)]
  /\ UNCHANGED <<fs, call, prev, rd, md, xa, ren>>

InitMkdirs ==
  /\ fs \in FsStates
  /\ call = Idle
  /\ prev = NoPrev
  /\ mk = MkIdle
  /\ rd = RdIdle
  /\ md = MdIdle
  /\ xa = XaIdle
  /\ ren = RenIdle

\* Concurrent callers, every syscall giving the filesystem's own answer.
NextMkdirs ==
  \E i \in Procs :
    \/ MkdirsInvoke(i)
    \/ MkdirsStat0(i, {})
    \/ MkdirsBack(i, {})
    \/ MkdirsFwd(i, {})
    \/ MkdirsFinal(i, {})
    \/ MkdirsRestat(i, {})

SpecMkdirs == InitMkdirs /\ [][NextMkdirs]_vars

\* One caller, whose syscalls may also fail with the errnos MkFaultErrnos.
NextMkdirsFaults ==
  \/ MkdirsInvoke(1)
  \/ MkdirsStat0(1, MkFaultErrnos)
  \/ MkdirsBack(1, MkFaultErrnos)
  \/ MkdirsFwd(1, MkFaultErrnos)
  \/ MkdirsFinal(1, MkFaultErrnos)
  \/ MkdirsRestat(1, MkFaultErrnos)

SpecMkdirsFaults == InitMkdirs /\ [][NextMkdirsFaults]_vars

\* Another actor creates an entry, of any type, in a directory; nothing is
\* ever deleted or renamed.  raced records that it did so after the
\* caller's first stat.
OtherCreates ==
  /\ \E i \in 1..MaxDepth, t \in Types \ {"none"} :
       /\ fs[NodeAt(i)] = "none"
       /\ Lookup(fs, NodeAt(i - 1)) = "dir"
       /\ fs' = [fs EXCEPT ![NodeAt(i)] = t]
  /\ mk' = [mk EXCEPT ![1].raced =
                        @ \/ mk[1].pc \in {"back", "fwd", "final", "restat"}]
  /\ UNCHANGED <<call, prev, rd, md, xa, ren>>

\* One caller, while other actors create entries along its path.
NextMkdirsRace ==
  \/ MkdirsInvoke(1)
  \/ MkdirsStat0(1, {})
  \/ MkdirsBack(1, {})
  \/ MkdirsFwd(1, {})
  \/ MkdirsFinal(1, {})
  \/ MkdirsRestat(1, {})
  \/ OtherCreates

SpecMkdirsRace == InitMkdirs /\ [][NextMkdirsRace]_vars

(***************************************************************************)
(* NativePosixFiles.readdir: one call, each step one call of opendir,      *)
(* readdir or closedir and the code up to the next one.                    *)
(***************************************************************************)
\* The path argument of the call.
RdPath == RelPath(1)

\* What reading path_chars after ReleaseStringLatin1Chars can give.
Freed == <<"?">>

Dot == <<".">>
DotDot == <<".", ".">>

\* The names a directory can hold, each with the kind of file it names.
DirNames ==
  {Dot, DotDot, <<".", "h">>, <<".", ".", "x">>, <<"x">>, <<"y">>, <<"l">>,
   <<"p">>}

KindOf(name) ==
  CASE name \in {Dot, DotDot, <<"y">>} -> "dir"
    [] name \in {<<".", "h">>, <<"x">>} -> "file"
    [] name = <<".", ".", "x">> -> "lnk_file"
    [] name = <<"l">> -> "lnk_dangling"
    [] OTHER -> "fifo"

\* The d_type the filesystem gives an entry when it fills d_type in.
HintOf(kind) ==
  CASE kind = "file" -> "DT_REG"
    [] kind = "dir" -> "DT_DIR"
    [] kind \in {"lnk_file", "lnk_dangling"} -> "DT_LNK"
    [] OTHER -> "DT_FIFO"

\* fstatat(dirfd, name, &statbuf, 0), which follows symbolic links.
FstatatSys(kind) ==
  CASE kind \in {"file", "lnk_file"} -> [err |-> "0", mode |-> "file"]
    [] kind = "dir" -> [err |-> "0", mode |-> "dir"]
    [] kind = "lnk_dangling" -> [err |-> "ENOENT", mode |-> "none"]
    [] OTHER -> [err |-> "0", mode |-> "fifo"]

RECURSIVE SeqsOver(_, _)
\* The sequences of at most n distinct elements of S.
SeqsOver(S, n) ==
  IF n = 0 THEN {<< >>}
  ELSE LET shorter == SeqsOver(S, n - 1)
           longest == {t \in shorter : Len(t) = n - 1}
       IN shorter \cup
          {Append(r[1], r[2]) :
             r \in {q \in longest \X S :
                      \A i \in 1..Len(q[1]) : q[1][i] # q[2]}}

\* The directory streams: the names in the order readdir gives them.
DirStreams == SeqsOver(DirNames, MaxDirLen)

\* The character at offset k of d_name, "NUL" at its end.
DNameChar(d_name, k) == IF k < Len(d_name) THEN d_name[k + 1] ELSE "NUL"

\* The test that omits . and .. (buggy variant: omits every name that
\* begins with a dot).
OmittedAllDotNames(d_name) == DNameChar(d_name, 0) = "."

\* The test that omits . and .. from the results.
Omitted(d_name) ==
  /\ DNameChar(d_name, 0) = "."
  /\ \/ DNameChar(d_name, 1) = "NUL"
     \/ DNameChar(d_name, 1) = "." /\ DNameChar(d_name, 2) = "NUL"

\* Whether GetDirentType calls fstatat for this d_type.
NeedsStat(d_type, follow_symlinks) ==
  \/ d_type = "DT_LNK" /\ follow_symlinks
  \/ d_type = "DT_UNKNOWN"

\* A link is reported as a link whether or not links are to be followed
\* (buggy variant).
GetDirentTypeLnkAlwaysS(d_type, follow_symlinks, st) ==
  CASE d_type = "DT_REG" -> "f"
    [] d_type = "DT_DIR" -> "d"
    [] d_type = "DT_LNK" -> "s"
    [] d_type = "DT_UNKNOWN" ->
         IF st.err = "0" /\ st.mode = "file" THEN "f"
         ELSE IF st.err = "0" /\ st.mode = "dir" THEN "d"
         ELSE "?"
    [] OTHER -> "?"

\* GetDirentType: st is what fstatat gives when it is called.
GetDirentType(d_type, follow_symlinks, st) ==
  CASE d_type = "DT_REG" -> "f"
    [] d_type = "DT_DIR" -> "d"
    [] d_type = "DT_LNK" /\ ~follow_symlinks -> "s"
    [] d_type \in {"DT_LNK", "DT_UNKNOWN"} ->
         IF st.err = "0" /\ st.mode = "file" THEN "f"
         ELSE IF st.err = "0" /\ st.mode = "dir" THEN "d"
         ELSE "?"
    [] OTHER -> "?"

\* errno is left as the last iteration set it (buggy variant).
ClearErrnoNever(errno) == errno

\* errno at the head of the fetch loop: "errno = 0".
ClearErrno(errno) == "0"

\* Only an interrupted fetch is fetched again (buggy variant).
SwallowedOnlyEINTR(e) == e = "EINTR"

\* "if (errno == EINTR) continue; if (errno == EIO) continue;".
Swallowed(e) == e = "EINTR" \/ e = "EIO"

\* The errnos with which opendir, readdir and closedir are made to fail.
RdFaultErrnos == {"EINTR", "EIO", "EBADF"}

RdCanFault == rd.faults < MaxFaults

JvmException ==
  [kind |-> "AsyncException", code |-> "0",
   msg |-> [file |-> << >>, text |-> "0"]]

NullDirents ==
  [cls |-> "null", names |-> << >>, types |-> << >>, typed |-> FALSE]

\* The caller lists a directory.
RdInvoke ==
  /\ rd.pc = "idle"
  /\ \E t \in {"n", "d", "f"}, d \in DirStreams :
       rd' = [rd EXCEPT !.pc = "opendir", !.read_types = t, !.dir = d,
                        !.all = d]
  /\ UNCHANGED <<fs, call, prev, mk, md, xa, ren>>

\* opendir succeeds; path_chars is released.
RdOpen ==
  /\ rd.pc = "opendir"
  /\ rd' = [rd EXCEPT !.pc = "readdir", !.dirh = "open",
                      !.path_chars = "released"]
  /\ UNCHANGED <<fs, call, prev, mk, md, xa, ren>>

\* opendir fails: EINTR repeats it, any other errno is thrown.
RdOpenFails ==
  /\ rd.pc = "opendir"
  /\ RdCanFault
  /\ \E e \in RdFaultErrnos \cup {"ENOENT"} :
       IF e = "EINTR"
       THEN rd' = [rd EXCEPT !.errno = e, !.faults = @ + 1]
       ELSE rd' = [rd EXCEPT !.pc = "done", !.errno = e, !.faults = @ + 1,
                             !.thrown = Append(@, PostFileException(e, RdPath)),
                             !.path_chars = "released", !.ret = NullDirents]
  /\ UNCHANGED <<fs, call, prev, mk, md, xa, ren>>

\* A type is stored for every entry fetched, "." and ".." too (buggy
\* variant).
PushesTypeForDots(d_name, read_types) == read_types # "n"

\* Whether GetDirentType is called and its result stored for an entry: the
\* entry is not omitted and "read_types != 'n'".
PushesType(d_name, read_types) == ~Omitted(d_name) /\ read_types # "n"

\* readdir gives the next entry: . and .. are omitted, any other name is
\* stored, with its type when types are wanted.
RdFetchEntry ==
  /\ rd.pc = "readdir"
  /\ rd.dir # << >>
  /\ LET d_name == Head(rd.dir)
         follow == rd.read_types = "f"
     IN \E d_type \in IF ~PushesType(d_name, rd.read_types)
                      THEN {HintOf(KindOf(d_name))}
                      ELSE {HintOf(KindOf(d_name)), "DT_UNKNOWN"},
           st \in {FstatatSys(KindOf(d_name))}
                  \cup (IF RdCanFault THEN {[err |-> "ENOSYS", mode |-> "none"]}
                        ELSE {}) :
          LET stats == /\ PushesType(d_name, rd.read_types)
                       /\ NeedsStat(d_type, follow)
              injected == stats /\ st # FstatatSys(KindOf(d_name))
          IN /\ (st # FstatatSys(KindOf(d_name))) => stats
             /\ rd' = [rd EXCEPT
                  !.dir = Tail(@),
                  !.errno = IF stats /\ st.err # "0" THEN st.err
                            ELSE ClearErrno(@),
                  !.entries = IF Omitted(d_name) THEN @ ELSE Append(@, d_name),
                  !.types = IF ~PushesType(d_name, rd.read_types) THEN @
                            ELSE Append(@, GetDirentType(d_type, follow, st)),
                  !.last = IF ~PushesType(d_name, rd.read_types)
                           THEN [name |-> d_name, d_type |-> "none",
                                 st |-> "none"]
                           ELSE [name |-> d_name, d_type |-> d_type,
                                 st |-> IF ~stats THEN "none"
                                        ELSE IF st.err = "0" THEN st.mode
                                        ELSE st.err],
                  !.faults = @ + (IF injected THEN 1 ELSE 0)]
  /\ UNCHANGED <<fs, call, prev, mk, md, xa, ren>>

\* readdir gives NULL at the end of the stream, errno still 0.
RdFetchEof ==
  /\ rd.pc = "readdir"
  /\ rd.dir = << >>
  /\ IF ClearErrno(rd.errno) = "0"
     THEN rd' = [rd EXCEPT !.pc = "closedir", !.errno = "0", !.eof = TRUE]
     ELSE IF Swallowed(ClearErrno(rd.errno))
     THEN rd' = [rd EXCEPT !.swallowed = IF @ < MaxFaults THEN @ + 1 ELSE @]
     ELSE rd' = [rd EXCEPT
            !.pc = "done", !.dirh = "closed", !.closes = @ + 1,
            !.ret = NullDirents, !.read_released = TRUE,
            !.thrown = Append(@, PostFileException(rd.errno, Freed))]
  /\ UNCHANGED <<fs, call, prev, mk, md, xa, ren>>

\* readdir fails: EINTR and EIO are swallowed (the stream may or may not
\* have lost an entry), any other errno is thrown after path_chars was
\* released, and the directory closed.
RdFetchError ==
  /\ rd.pc = "readdir"
  /\ RdCanFault
  /\ \E e \in RdFaultErrnos,
        skip \in {0} \cup (IF rd.dir # << >> THEN {1} ELSE {}),
        file \in {RdPath, Freed} :
       IF Swallowed(e)
       THEN /\ file = RdPath
            /\ rd' = [rd EXCEPT !.errno = e, !.faults = @ + 1,
                                  !.swallowed = @ + 1,
                                  !.dir = SubSeq(@, 1 + skip, Len(@))]
       ELSE /\ skip = 0
            /\ rd' = [rd EXCEPT
                 !.pc = "done", !.errno = e, !.faults = @ + 1,
                 !.dirh = "closed", !.closes = @ + 1, !.ret = NullDirents,
                 !.read_released = rd.path_chars = "released",
                 !.thrown = Append(@, PostFileException(e, file))]
  /\ UNCHANGED <<fs, call, prev, mk, md, xa, ren>>

\* closedir's failure is ignored (buggy variant).
CloseThrowsNever(e) == FALSE

\* "::closedir(dirh) < 0 && errno != EINTR", e the errno of a failure and
\* "0" for success.
CloseThrows(e) == e # "0" /\ e # "EINTR"

\* closedir succeeds, or fails with an errno: any but EINTR is thrown
\* after path_chars was released.
RdClose ==
  /\ rd.pc = "closedir"
  /\ \E e \in {"0"} \cup (IF RdCanFault THEN RdFaultErrnos ELSE {}),
        file \in {RdPath, Freed} :
       /\ ~CloseThrows(e) => file = RdPath
       /\ IF ~CloseThrows(e)
          THEN rd' = [rd EXCEPT !.pc = "build", !.dirh = "closed",
                                !.closes = @ + 1, !.closeerr = e,
                                !.errno = IF e = "0" THEN @ ELSE e,
                                !.faults = @ + (IF e = "0" THEN 0 ELSE 1)]
          ELSE rd' = [rd EXCEPT
                 !.pc = "done", !.dirh = "closed", !.closes = @ + 1,
                 !.closeerr = e,
                 !.errno = e, !.faults = @ + 1, !.ret = NullDirents,
                 !.read_released = rd.path_chars = "released",
                 !.thrown = Append(@, PostFileException(e, file))]
  /\ UNCHANGED <<fs, call, prev, mk, md, xa, ren>>

\* The result is built: the names, and the types when they were wanted
\* (CHECK(len == types.size()) aborts the process otherwise).
RdBuild ==
  /\ rd.pc = "build"
  /\ IF rd.read_types # "n" /\ Len(rd.entries) # Len(rd.types)
     THEN rd' = [rd EXCEPT !.pc = "aborted"]
     ELSE rd' = [rd EXCEPT
            !.pc = "done",
            !.ret = [cls |-> "Dirents", names |-> rd.entries,
                     types |-> IF rd.read_types # "n" THEN rd.types ELSE << >>,
                     typed |-> rd.read_types # "n"]]
  /\ UNCHANGED <<fs, call, prev, mk, md, xa, ren>>

\* The JVM fails to allocate the result: an exception of its own is
\* pending and NULL is returned.
RdBuildFails ==
  /\ rd.pc = "build"
  /\ RdCanFault
  /\ rd' = [rd EXCEPT !.pc = "done", !.faults = @ + 1, !.ret = NullDirents,
                      !.thrown = Append(@, JvmException)]
  /\ UNCHANGED <<fs, call, prev, mk, md, xa, ren>>

InitReaddir ==
  /\ fs \in {f \in FsStates : f[NodeAt(1)] = "dir" /\ \A n \in Nodes \ {NodeAt(1)} : f[n] = "none"}
  /\ call = Idle
  /\ prev = NoPrev
  /\ mk = MkIdle
  /\ rd = RdIdle
  /\ md = MdIdle
  /\ xa = XaIdle
  /\ ren = RenIdle

NextReaddir ==
  \/ RdInvoke
  \/ RdOpen
  \/ RdOpenFails
  \/ RdFetchEntry
  \/ RdFetchEof
  \/ RdFetchError
  \/ RdClose
  \/ RdBuild
  \/ RdBuildFails

SpecReaddir == InitReaddir /\ [][NextReaddir]_vars

\* The names of the directories listed by the calls that may be interrupted
\* without bound.
LiveNames == {Dot, <<"x">>, <<"l">>}

LiveStreams == SeqsOver(LiveNames, MaxDirLen)

\* The caller lists a directory of LiveStreams.
RdInvokeLive ==
  /\ rd.pc = "idle"
  /\ \E t \in {"n", "d", "f"}, d \in LiveStreams :
       rd' = [rd EXCEPT !.pc = "opendir", !.read_types = t, !.dir = d,
                        !.all = d]
  /\ UNCHANGED <<fs, call, prev, mk, md, xa, ren>>

\* opendir is interrupted once more and the loop calls it again; spin
\* tells one pass of the loop from the next.
RdOpenAgain ==
  /\ rd.pc = "opendir"
  /\ rd' = [rd EXCEPT !.errno = "EINTR", !.spin = 1 - @]
  /\ UNCHANGED <<fs, call, prev, mk, md, xa, ren>>

\* readdir fails once more with an errno that is swallowed and the loop
\* fetches again.
RdFetchAgain ==
  /\ rd.pc = "readdir"
  /\ \E e \in {x \in RdFaultErrnos : Swallowed(x)} :
       rd' = [rd EXCEPT !.errno = e, !.spin = 1 - @,
                        !.swallowed = IF @ < MaxFaults THEN @ + 1 ELSE @]
  /\ UNCHANGED <<fs, call, prev, mk, md, xa, ren>>

\* A readdir call whose opendir and readdir may fail any number of times
\* with the errnos the loops repeat on.
NextReaddirLive ==
  \/ RdInvokeLive
  \/ RdOpen
  \/ RdOpenFails
  \/ RdOpenAgain
  \/ RdFetchEntry
  \/ RdFetchEof
  \/ RdFetchError
  \/ RdFetchAgain
  \/ RdClose
  \/ RdBuild
  \/ RdBuildFails

\* The thread that runs the call is never stopped for good.
SpecReaddirLive ==
  InitReaddir /\ [][NextReaddirLive]_vars /\ WF_vars(NextReaddirLive)

(***************************************************************************)
(* md5sumAsBytes: one call, or two calls one after the other on the same   *)
(* file; each step is one call of open, read or close and the code up to   *)
(* the next one.  BufSize stands for arraysize(buf).                       *)
(***************************************************************************)
\* The path argument of the call.
MdPath == RelPath(1)

Bytes == {0, 1}

\* The contents a file can have.
Contents == UNION {[1..n -> Bytes] : n \in 0..MaxFileLen}

\* What buf can hold before the first read.
Bufs == [1..BufSize -> Bytes]

RECURSIVE Update(_, _)
\* Md5Digest::Update: the digest's state after it has taken the bytes in,
\* the same whether they come in one piece or in several.
Update(digest, bytes) ==
  IF bytes = << >> THEN digest
  ELSE Update(digest * 3 + Head(bytes) + 1, Tail(bytes))

\* Md5Digest::Finish and the byte array made of it.
Finish(digest) == [cls |-> "bytes", value |-> digest]

\* The bytes the loop gives to the digest after a read of len bytes
\* (buggy variant: the whole buffer).
DigestInputWholeBuf(buf, len) == buf

\* The bytes the loop gives to the digest after a read of len bytes:
\* "digest.Update(buf, len)".
DigestInput(buf, len) == SubSeq(buf, 1, len)

\* read(fd, buf, arraysize(buf)) that gives len bytes from offset off.
ReadInto(buf, content, off, len) ==
  [i \in 1..BufSize |-> IF i <= len THEN content[off + i] ELSE buf[i]]

\* The errnos with which open, read and close are made to fail.
MdFaultErrnos == {"EINTR", "EIO"}

MdCanFault == md.faults < MaxFaults

\* The JNI function after md5sumAsBytes gave -1 with errno e.
MdFailed(m, e) ==
  [m EXCEPT !.pc = "done", !.errno = e, !.res = "-1",
            !.ret = [cls |-> "null", value |-> 0],
            !.thrown = Append(@, PostFileException(e, MdPath))]

\* A failed read with an errno other than EINTR, without the close
\* (buggy variant).
MdReadErrorNoClose(m, e, c) == MdFailed([m EXCEPT !.readerr = e], e)

\* A failed read with an errno other than EINTR, errno left as close set
\* it (buggy variant).
MdReadErrorNoRestore(m, e, c) ==
  MdFailed([m EXCEPT !.fd = "closed", !.closes = @ + 1, !.readerr = e,
                     !.closeerr = c],
           IF c = "0" THEN e ELSE c)

\* The errnos with which the close after a failed read can fail.
MdCloseErrnos == {"EINTR", "EBADF"}

\* A failed read with an errno other than EINTR: the descriptor is closed
\* (c is what close gives, "0" for success), errno is set again to the
\* read's and -1 is returned.
MdReadError(m, e, c) ==
  LET read_errno == e
      closed == [m EXCEPT !.fd = "closed", !.closes = @ + 1, !.readerr = e,
                          !.closeerr = c,
                          !.errno = IF c = "0" THEN e ELSE c]
  IN MdFailed(closed, read_errno)

\* The caller asks for the digest of a file.
MdInvoke ==
  /\ md.pc = "idle"
  /\ \E c \in Contents, b \in Bufs :
       md' = [MdIdle EXCEPT !.pc = "open", !.content = c, !.buf = b,
                            !.ncalls = 1]
  /\ UNCHANGED <<fs, call, prev, mk, rd, xa, ren>>

\* The caller asks again for the digest of the same, unmodified file.
MdAgain ==
  /\ md.pc = "done"
  /\ md.ncalls = 1
  /\ \E b \in Bufs :
       md' = [MdIdle EXCEPT !.pc = "open", !.content = md.content, !.buf = b,
                            !.first = md.ret, !.ncalls = 2]
  /\ UNCHANGED <<fs, call, prev, mk, rd, xa, ren>>

\* open succeeds.
MdOpen ==
  /\ md.pc = "open"
  /\ md' = [md EXCEPT !.pc = "read", !.fd = "open", !.off = 0]
  /\ UNCHANGED <<fs, call, prev, mk, rd, xa, ren>>

\* open fails: EINTR repeats it, any other errno is returned and thrown.
MdOpenFails ==
  /\ md.pc = "open"
  /\ MdCanFault
  /\ \E e \in MdFaultErrnos \cup {"ENOENT"} :
       IF e = "EINTR"
       THEN md' = [md EXCEPT !.errno = e, !.faults = @ + 1]
       ELSE md' = MdFailed([md EXCEPT !.faults = @ + 1], e)
  /\ UNCHANGED <<fs, call, prev, mk, rd, xa, ren>>

\* read gives some bytes, at most arraysize(buf): they go to the digest.
MdRead ==
  /\ md.pc = "read"
  /\ md.off < Len(md.content)
  /\ \E len \in 1..BufSize :
       /\ md.off + len <= Len(md.content)
       /\ LET buf == ReadInto(md.buf, md.content, md.off, len)
          IN md' = [md EXCEPT
               !.buf = buf, !.off = @ + len,
               !.digest = Update(@, DigestInput(buf, len)),
               !.fed = @ \o DigestInput(buf, len)]
  /\ UNCHANGED <<fs, call, prev, mk, rd, xa, ren>>

\* read gives 0 at the end of the file: the loop ends.
MdReadEof ==
  /\ md.pc = "read"
  /\ md.off = Len(md.content)
  /\ md' = [md EXCEPT !.pc = "close"]
  /\ UNCHANGED <<fs, call, prev, mk, rd, xa, ren>>

\* read fails: EINTR repeats it, any other errno ends the call.
MdReadFails ==
  /\ md.pc = "read"
  /\ MdCanFault
  /\ \E e \in MdFaultErrnos, c \in {"0"} \cup MdCloseErrnos :
       IF e = "EINTR"
       THEN /\ c = "0"
            /\ md' = [md EXCEPT !.errno = e, !.faults = @ + 1]
       ELSE md' = MdReadError([md EXCEPT !.faults = @ + 1], e, c)
  /\ UNCHANGED <<fs, call, prev, mk, rd, xa, ren>>

\* close succeeds, or fails with an errno: any but EINTR is returned and
\* thrown, otherwise the digest is finished and returned.
MdClose ==
  /\ md.pc = "close"
  /\ \E e \in {"0"} \cup (IF MdCanFault THEN MdFaultErrnos ELSE {}) :
       LET m == [md EXCEPT !.fd = "closed", !.closes = @ + 1,
                           !.closeerr = e,
                           !.faults = @ + (IF e = "0" THEN 0 ELSE 1)]
       IN IF e # "0" /\ e # "EINTR"
          THEN md' = MdFailed(m, e)
          ELSE md' = [m EXCEPT !.pc = "done", !.res = "0",
                               !.errno = IF e = "0" THEN @ ELSE e,
                               !.ret = Finish(m.digest)]
  /\ UNCHANGED <<fs, call, prev, mk, rd, xa, ren>>

InitMd5 ==
  /\ fs \in {f \in FsStates : f[NodeAt(1)] = "file"}
  /\ call = Idle
  /\ prev = NoPrev
  /\ mk = MkIdle
  /\ rd = RdIdle
  /\ md = MdIdle
  /\ xa = XaIdle
  /\ ren = RenIdle

NextMd5 ==
  \/ MdInvoke
  \/ MdAgain
  \/ MdOpen
  \/ MdOpenFails
  \/ MdRead
  \/ MdReadEof
  \/ MdReadFails
  \/ MdClose

SpecMd5 == InitMd5 /\ [][NextMd5]_vars

(***************************************************************************)
(* The two operations that open a handle, one call at a time: readdir      *)
(* when the path is a directory, md5sumAsBytes when it is a file.          *)
(***************************************************************************)
InitHandles ==
  /\ fs \in {f \in FsStates :
               /\ f[NodeAt(1)] \in {"dir", "file"}
               /\ \A n \in Nodes \ {NodeAt(1)} : f[n] = "none"}
  /\ call = Idle
  /\ prev = NoPrev
  /\ mk = MkIdle
  /\ rd = RdIdle
  /\ md = MdIdle
  /\ xa = XaIdle
  /\ ren = RenIdle

NextHandles ==
  \/ fs[NodeAt(1)] = "dir" /\ NextReaddir
  \/ fs[NodeAt(1)] = "file" /\ NextMd5

SpecHandles == InitHandles /\ [][NextHandles]_vars

(***************************************************************************)
(* getxattr and lgetxattr (getxattr_common): one call of the getxattr      *)
(* function of unix_jni.h.  ValueSize stands for arraysize(value).         *)
(***************************************************************************)
\* What the named attribute of a file can be: absent, or some bytes, up to
\* one more than the buffer takes.
AttrValues ==
  {[present |-> FALSE, bytes |-> << >>]}
  \cup {[present |-> TRUE, bytes |-> b] :
          b \in UNION {[1..n -> Bytes] : n \in 0..(ValueSize + 1)}}

\* What value can hold before the call.
Values == [1..ValueSize -> Bytes]

\* portable_getxattr (follow) and portable_lgetxattr as unix_jni.h states
\* them: the size and the buffer on success; -1 with attr_not_found when
\* the attribute is not there; -1 with errno for every other failure.
GetxattrSys(f, s, follow, attr, value) ==
  LET r == StatSys(f, s, follow)
  IN IF r.err # "0"
     THEN [size |-> -1, attr_not_found |-> FALSE, errno |-> r.err,
           value |-> value]
     ELSE IF ~attr.present
     THEN [size |-> -1, attr_not_found |-> TRUE, errno |-> "ENODATA",
           value |-> value]
     ELSE IF Len(attr.bytes) > ValueSize
     THEN [size |-> -1, attr_not_found |-> FALSE, errno |-> "ERANGE",
           value |-> value]
     ELSE [size |-> Len(attr.bytes), attr_not_found |-> FALSE, errno |-> "0",
           value |-> [i \in 1..ValueSize |->
                        IF i <= Len(attr.bytes) THEN attr.bytes[i]
                        ELSE value[i]]]

\* getxattr_common after the call (buggy variant: attr_not_found is not
\* looked at).
XaResultThrowsNotFound(path_chars, g) ==
  IF g.size = -1
  THEN [ret |-> [cls |-> "null", bytes |-> << >>],
        thrown |-> <<PostFileException(g.errno, path_chars)>>]
  ELSE [ret |-> [cls |-> "bytes", bytes |-> SubSeq(g.value, 1, g.size)],
        thrown |-> << >>]

\* getxattr_common after the call: what it returns and throws.
XaResult(path_chars, g) ==
  IF g.size = -1
  THEN [ret |-> [cls |-> "null", bytes |-> << >>],
        thrown |-> IF ~g.attr_not_found
                   THEN <<PostFileException(g.errno, path_chars)>>
                   ELSE << >>]
  ELSE [ret |-> [cls |-> "bytes", bytes |-> SubSeq(g.value, 1, g.size)],
        thrown |-> << >>]

\* The errnos with which the getxattr function is made to fail.
XaFaultErrnos == {"EACCES", "ENOTSUP", "ENOMEM", "EIO"}

\* The caller reads an attribute of a path.
XaInvoke ==
  /\ xa.pc = "idle"
  /\ \E follow \in BOOLEAN, path \in RelPaths, attr \in AttrValues,
        value \in Values :
       xa' = [XaIdle EXCEPT !.pc = "sys", !.follow = follow, !.path = path,
                            !.attr = attr, !.value = value]
  /\ UNCHANGED <<fs, call, prev, mk, rd, md, ren>>

\* The getxattr function is called and getxattr_common returns.
XaGetxattr ==
  /\ xa.pc = "sys"
  /\ LET g == GetxattrSys(fs, xa.path, xa.follow, xa.attr, xa.value)
         res == XaResult(xa.path, g)
     IN xa' = [xa EXCEPT !.pc = "done", !.size = g.size,
                         !.attr_not_found = g.attr_not_found,
                         !.errno = g.errno, !.value = g.value,
                         !.ret = res.ret, !.thrown = res.thrown]
  /\ UNCHANGED <<fs, call, prev, mk, rd, md, ren>>

\* The getxattr function fails for another reason.
XaGetxattrFails ==
  /\ xa.pc = "sys"
  /\ xa.faults < MaxFaults
  /\ \E e \in XaFaultErrnos :
       LET g == [size |-> -1, attr_not_found |-> FALSE, errno |-> e,
                 value |-> xa.value]
           res == XaResult(xa.path, g)
       IN xa' = [xa EXCEPT !.pc = "done", !.size = g.size,
                           !.attr_not_found = g.attr_not_found,
                           !.errno = g.errno, !.faults = @ + 1,
                           !.ret = res.ret, !.thrown = res.thrown]
  /\ UNCHANGED <<fs, call, prev, mk, rd, md, ren>>

\* The call returns to its caller.
XaReturn ==
  /\ xa.pc = "done"
  /\ xa' = XaIdle
  /\ UNCHANGED <<fs, call, prev, mk, rd, md, ren>>

InitXattr ==
  /\ fs \in FsStates
  /\ call = Idle
  /\ prev = NoPrev
  /\ mk = MkIdle
  /\ rd = RdIdle
  /\ md = MdIdle
  /\ xa = XaIdle
  /\ ren = RenIdle

NextXattr ==
  \/ XaInvoke
  \/ XaGetxattr
  \/ XaGetxattrFails
  \/ XaReturn

SpecXattr == InitXattr /\ [][NextXattr]_vars

(***************************************************************************)
(* rename: one rename(2) call, on a filesystem of two names in the root,   *)
(* each of which can be a directory with one entry.                        *)
(***************************************************************************)
RenPaths == {<<"a">>, <<"b">>, <<"a", "/", "c">>, <<"b", "/", "c">>}

RenNodes == {Components(q) : q \in RenPaths}

RenFsStates ==
  {f \in [RenNodes -> Types] :
     \A n \in RenNodes :
       (Len(n) = 2 /\ f[n] # "none") => f[SubSeq(n, 1, 1)] = "dir"}

\* Node n is node m or lies below it.
Below(n, m) == Len(n) >= Len(m) /\ SubSeq(n, 1, Len(m)) = m

\* The filesystem after the entry at node from, with what is below it, has
\* moved to node to.
Moved(f, from, to) ==
  [n \in DOMAIN f |->
     IF Below(n, to)
     THEN LET src == from \o SubSeq(n, Len(to) + 1, Len(n))
          IN IF src \in DOMAIN f THEN f[src] ELSE "none"
     ELSE IF Below(n, from) THEN "none"
     ELSE f[n]]

\* rename(2): the possible outcomes.  The order in which the two paths are
\* resolved is the platform's, so a call with several reasons to fail can
\* give the errno of any of them.
RenameSys(f, old, new) ==
  LET from == Components(old)
      to == Components(new)
      wo == WalkErr(f, old)
      wn == WalkErr(f, new)
      t_old == Lookup(f, from)
      t_new == Lookup(f, to)
      fail(e) == [err |-> e, fs |-> f]
  IN IF wo # "0" \/ wn # "0" \/ t_old = "none"
     THEN {fail(e) : e \in ({wo, wn} \ {"0"})
                          \cup (IF wo = "0" /\ t_old = "none"
                                THEN {"ENOENT"} ELSE {})}
     ELSE IF from = to THEN {[err |-> "0", fs |-> f]}
     ELSE IF t_old = "dir" /\ Below(to, from) THEN {fail("EINVAL")}
     ELSE IF Below(from, to) THEN {fail("ENOTEMPTY")}
     ELSE IF t_new = "dir" /\ t_old # "dir" THEN {fail("EISDIR")}
     ELSE IF t_new = "dir" /\ HasChild(f, to) THEN {fail("ENOTEMPTY")}
     ELSE IF t_new \notin {"none", "dir"} /\ t_old = "dir"
     THEN {fail("ENOTDIR")}
     ELSE IF \E n \in DOMAIN f :
               /\ Below(n, from) /\ f[n] # "none"
               /\ to \o SubSeq(n, Len(from) + 1, Len(n)) \notin DOMAIN f
     THEN {fail("ENOSPC")}
     ELSE {[err |-> "0", fs |-> Moved(f, from, to)]}

\* The filename of rename's exception (buggy variant: the old path only).
RenameFilenameOldOnly(oldpath_chars, newpath_chars) == oldpath_chars

\* The filename of rename's exception: oldpath + " -> " + newpath.
RenameFilename(oldpath_chars, newpath_chars) ==
  oldpath_chars \o <<" ", "-", ">", " ">> \o newpath_chars

\* What rename throws for the errno of its rename(2) call.
RenameResult(oldpath_chars, newpath_chars, err) ==
  IF err # "0"
  THEN <<PostFileException(err,
                           RenameFilename(oldpath_chars, newpath_chars))>>
  ELSE << >>

\* The errnos with which rename(2) is made to fail.
RenFaultErrnos == {"EINTR", "EACCES", "EXDEV", "ENOMEM"}

\* The caller renames a path.
RenInvoke ==
  /\ ren.pc = "idle"
  /\ \E old \in RenPaths, new \in RenPaths :
       ren' = [RenIdle EXCEPT !.pc = "sys", !.oldpath = old, !.newpath = new,
                              !.fs0 = fs]
  /\ UNCHANGED <<fs, call, prev, mk, rd, md, xa>>

\* rename(2) is called, once, and rename returns.
RenRename ==
  /\ ren.pc = "sys"
  /\ \E out \in RenameSys(fs, ren.oldpath, ren.newpath) :
       /\ fs' = out.fs
       /\ ren' = [ren EXCEPT
            !.pc = "done", !.err = out.err,
            !.thrown = RenameResult(ren.oldpath, ren.newpath, out.err)]
  /\ UNCHANGED <<call, prev, mk, rd, md, xa>>

\* rename(2) fails for another reason.
RenRenameFails ==
  /\ ren.pc = "sys"
  /\ ren.faults < MaxFaults
  /\ \E e \in RenFaultErrnos :
       ren' = [ren EXCEPT
         !.pc = "done", !.err = e, !.faults = @ + 1,
         !.thrown = RenameResult(ren.oldpath, ren.newpath, e)]
  /\ UNCHANGED <<fs, call, prev, mk, rd, md, xa>>

\* The call returns to its caller.
RenReturn ==
  /\ ren.pc = "done"
  /\ ren' = RenIdle
  /\ UNCHANGED <<fs, call, prev, mk, rd, md, xa>>

InitRename ==
  /\ fs \in RenFsStates
  /\ call = [Idle EXCEPT !.fs0 = << >>]
  /\ prev = NoPrev
  /\ mk = MkIdle
  /\ rd = RdIdle
  /\ md = MdIdle
  /\ xa = XaIdle
  /\ ren = RenIdle

NextRename ==
  \/ RenInvoke
  \/ RenRename
  \/ RenRenameFails
  \/ RenReturn

SpecRename == InitRename /\ [][NextRename]_vars

(***************************************************************************)
(* Properties of the single-syscall path operations (under Spec).          *)
(***************************************************************************)
\* The call in progress has finished and is one of ops.
Done(ops) == call.pc = "done" /\ call.op \in ops

\* The entry the call's path named when its syscall ran.
Target0 == Lookup(call.fs0, Components(call.path))

\* Some proper prefix of the call's path was a regular file or a link to
\* one when its syscall ran.
PrefixNotDir0 ==
  LET cs == Components(call.path)
  IN \E i \in 1..(Len(cs) - 1) :
       Lookup(call.fs0, SubSeq(cs, 1, i)) \in {"file", "lnk_file"}

\* What statOrError and stat give for a path whose lookup ended with code.
StatFailsWith(code, kind) ==
  IF ShouldThrow(call.op)
  THEN /\ call.ret = Null
       /\ Len(call.thrown) = 1
       /\ call.thrown[1].kind = kind
       /\ call.thrown[1].code = code
  ELSE /\ call.thrown = << >>
       /\ call.ret.cls = "ErrnoFileStatus"
       /\ call.ret.errno = code

\* C1 as stated: for every path that does not exist (and no injected
\* failure), errnoStat/errnoLstat return an error result with code ENOENT
\* and throw nothing, and stat/lstat throw NotFound and return null.
C1_Original ==
  (Done(StatOps) /\ call.faults = 0 /\ Target0 = "none")
    => StatFailsWith("ENOENT", "NotFound")

\* C1 amended: the same, for a path that does not exist and none of whose
\* proper prefixes is a non-directory; below a non-directory the code is
\* ENOTDIR and stat/lstat throw the generic I/O exception.
C1_NotFound ==
  (Done(StatOps) /\ call.faults = 0 /\ Target0 = "none")
    => IF PrefixNotDir0 THEN StatFailsWith("ENOTDIR", "GenericIO")
       ELSE StatFailsWith("ENOENT", "NotFound")

C1_Witness ==
  /\ Done({"errnoStat"}) /\ call.faults = 0 /\ Target0 = "none"
  /\ ~PrefixNotDir0
  /\ call.ret.errno = "ENOENT" /\ call.thrown = << >>

C7_Mkdir ==
  Done({"mkdir"}) =>
    LET node == Components(call.path)
        parent == SubSeq(node, 1, Len(node) - 1)
    IN /\ (call.faults = 0 /\ Target0 = "none"
             /\ Lookup(call.fs0, parent) = "dir")
            => (call.ret.cls = "true" /\ call.thrown = << >>
                  /\ fs = [call.fs0 EXCEPT ![node] = "dir"])
       /\ (call.faults = 0 /\ Target0 # "none")
            => (call.ret.cls = "false" /\ call.thrown = << >>
                  /\ fs = call.fs0)
       /\ (call.err \notin {"0", "EEXIST"})
            => (Len(call.thrown) = 1 /\ call.thrown[1].code = call.err
                  /\ call.thrown[1].msg.file = call.path /\ fs = call.fs0)

\* The second mkdir of a path that the call before created.
C7_Witness ==
  /\ Done({"mkdir"}) /\ call.ret.cls = "false" /\ call.thrown = << >>
  /\ prev.op = "mkdir" /\ prev.path = call.path /\ prev.cls = "true"

\* C8 as stated: unlink of a path that does not exist (no injected
\* failure) throws nothing and changes nothing.
C8_Original ==
  (Done({"unlink"}) /\ call.faults = 0 /\ Target0 = "none")
    => (call.thrown = << >> /\ fs = call.fs0)

\* C8 amended: unlink of a path that does not exist and none of whose
\* proper prefixes is a non-directory throws nothing, returns false and
\* changes nothing (below a non-directory unlink fails with ENOTDIR, which
\* it throws).
C8_UnlinkMissing ==
  (Done({"unlink"}) /\ call.faults = 0 /\ Target0 = "none"
     /\ ~PrefixNotDir0)
    => (call.thrown = << >> /\ call.ret.cls = "false" /\ fs = call.fs0)

\* unlink of a path that the unlink before it deleted.
C8_Witness ==
  /\ Done({"unlink"}) /\ call.faults = 0 /\ Target0 = "none"
  /\ call.err = "ENOENT" /\ call.thrown = << >>
  /\ prev.op = "unlink" /\ prev.path = call.path /\ prev.cls = "true"

\* C9: a failed unlink throws nothing exactly for ENOENT, a failed remove
\* exactly for ENOENT and ENOTDIR; every other code is thrown once,
\* classified, with the path in the message.
C9_AbsorbedExact ==
  (Done(DeleteOps) /\ call.err # "0")
    => /\ (call.thrown = << >>)
            <=> (call.err \in (IF call.op = "unlink" THEN {"ENOENT"}
                               ELSE {"ENOENT", "ENOTDIR"}))
       /\ call.thrown # << >>
            => call.thrown = <<[kind |-> ExceptionClass(call.err),
                                code |-> call.err,
                                msg |-> [file |-> call.path,
                                         text |-> call.err]]>>

\* unlink below a regular file: ENOTDIR from the filesystem, thrown.
C9_Witness ==
  /\ Done({"unlink"}) /\ call.faults = 0 /\ call.err = "ENOTDIR"
  /\ Len(call.thrown) = 1 /\ call.thrown[1].kind = "GenericIO"

\* C15: when stat(p) returns a FileStatus and the statOrError(p) called
\* next, on the unchanged filesystem, finds p too (or the other way round;
\* likewise lstat and the no-follow statOrError), the two results hold the
\* same mode, the same three times in seconds and nanoseconds, the same
\* size, device and inode, and statOrError's result carries no error.
C15_SameFields ==
  \A pair \in {<<"stat", "errnoStat">>, <<"errnoStat", "stat">>,
                <<"lstat", "errnoLstat">>, <<"errnoLstat", "lstat">>} :
    (/\ call.pc = "done" /\ call.op = pair[2] /\ call.err = "0"
     /\ prev.op = pair[1] /\ prev.path = call.path
     /\ prev.cls \in {"FileStatus", "ErrnoFileStatus"}
     /\ prev.mode # "none")
      => /\ call.ret.cls \in {"FileStatus", "ErrnoFileStatus"}
         /\ call.ret.errno = "0"
         /\ call.ret.mode = prev.mode
         /\ call.ret.meta = prev.meta
         /\ call.ret.mode # "none" /\ call.ret.meta # NoMeta

\* stat then statOrError of a symbolic link to a file, both successful.
C15_Witness ==
  /\ call.pc = "done" /\ call.op = "errnoStat" /\ call.err = "0"
  /\ prev.op = "stat" /\ prev.path = call.path /\ prev.cls = "FileStatus"
  /\ Lookup(fs, Components(call.path)) = "lnk_file"
  /\ call.ret.cls = "ErrnoFileStatus" /\ call.ret.mode = "file"
  /\ call.ret.meta = prev.meta /\ call.ret.meta.mtime # call.ret.meta.ctime

\* C16: a result that statOrError (following or not) returns is the error
\* variant, with the errno of the failed call, which is neither 0 nor
\* EINTR, and with no stat fields, exactly when the last stat attempt
\* failed; otherwise it carries no error and its fields are those of the
\* stat buffer that the successful call filled in.
C16_OneVariant ==
  (/\ call.pc = "done" /\ call.op \in {"errnoStat", "errnoLstat"}
   /\ call.ret.cls # "null")
    => /\ call.ret.cls = "ErrnoFileStatus"
       /\ call.thrown = << >>
       /\ call.ret.errno = call.err
       /\ call.ret.errno # "EINTR"
       /\ IF call.err # "0"
          THEN call.ret.mode = "none" /\ call.ret.meta = NoMeta
          ELSE LET statbuf == StatBuf(fs, call.path, FollowOf(call.op))
               IN /\ statbuf # UninitStatBuf
                  /\ call.ret.mode = statbuf.st_mode
                  /\ call.ret.meta = CtorArgs(statbuf)

\* statOrError of a path below a regular file: the error variant, ENOTDIR.
C16_Witness ==
  /\ call.pc = "done" /\ call.op = "errnoStat"
  /\ call.faults = 0 /\ call.err = "ENOTDIR"
  /\ call.ret.cls = "ErrnoFileStatus" /\ call.ret.errno = "ENOTDIR"
  /\ call.ret.mode = "none"

\* The kind that C19 gives for a code.
KindOfCode ==
  [code \in Errnos |->
     IF code \in {"EFAULT", "EBADF"} THEN "InvalidArgument"
     ELSE IF code = "ENOENT" THEN "NotFound"
     ELSE IF code = "EACCES" THEN "PermissionDenied"
     ELSE IF code = "EPERM" THEN "OperationNotPermitted"
     ELSE IF code = "EINTR" THEN "Interrupted"
     ELSE IF code = "ENOMEM" THEN "OutOfMemory"
     ELSE IF code \in {"ENOSYS", "ENOTSUP"} THEN "Unsupported"
     ELSE IF code = "ETIMEDOUT" THEN "Timeout"
     ELSE "GenericIO"]

C19_WitnessUnlisted ==
  /\ call.pc = "done" /\ call.op = "mkdir" /\ call.err = "ESTALE"
  /\ Len(call.thrown) = 1 /\ call.thrown[1].kind = "GenericIO"

C27_WitnessNarrow ==
  /\ call.pc = "done" /\ call.op \in StatOps /\ ~ShouldThrow(call.op)
  /\ call.err = "ENOMEM"
  /\ Len(call.thrown) = 1 /\ call.thrown[1].kind = "OutOfMemory"

\* C28: whenever mkdir(2) fails with EEXIST, mkdir returns false, throws
\* nothing and changes nothing; that is what happens when the path names a
\* directory, a regular file, a link to a file or a dangling link, the
\* type of what exists never being looked at.
C28_EexistAnyType ==
  Done({"mkdir"}) =>
    /\ call.err = "EEXIST" =>
         /\ call.ret = JBool(FALSE)
         /\ call.thrown = << >>
         /\ fs = call.fs0
    /\ (call.faults = 0
          /\ Target0 \in {"dir", "file", "lnk_file", "lnk_dangling"}) =>
         call.err = "EEXIST"

\* mkdir of a path that names a regular file returned false.
C28_Witness ==
  /\ Done({"mkdir"}) /\ call.faults = 0 /\ Target0 = "file"
  /\ call.ret.cls = "false" /\ call.thrown = << >>

\* mkdir of a path that names a dangling link returned false.
C28_WitnessDangling ==
  /\ Done({"mkdir"}) /\ call.faults = 0 /\ Target0 = "lnk_dangling"
  /\ call.ret.cls = "false" /\ call.thrown = << >>

\* C31: unlink and remove return true exactly when this call's syscall
\* took the entry at the path away; a failure leaves the filesystem as it
\* was and returns false, without an exception when the errno is absorbed
\* (ENOENT; for remove also ENOTDIR) and with one otherwise.
C31_TrueIffDeleted ==
  Done(DeleteOps) =>
    LET node == Components(call.path)
        absorbed == call.err \in (IF call.op = "unlink" THEN {"ENOENT"}
                                  ELSE {"ENOENT", "ENOTDIR"})
    IN /\ call.ret.cls \in {"true", "false"}
       /\ call.ret.cls = "true" <=>
            /\ call.err = "0"
            /\ Target0 # "none"
            /\ fs = [call.fs0 EXCEPT ![node] = "none"]
       /\ call.ret.cls = "false" => fs = call.fs0
       /\ (call.err # "0" /\ absorbed) =>
            call.ret.cls = "false" /\ call.thrown = << >>
       /\ (call.err # "0" /\ ~absorbed) =>
            /\ call.ret.cls = "false"
            /\ Len(call.thrown) = 1 /\ call.thrown[1].code = call.err
       /\ call.err = "0" => call.thrown = << >>

\* remove of a path below a regular file: ENOTDIR is absorbed, false is
\* returned and nothing thrown.
C31_Witness ==
  /\ Done({"remove"}) /\ call.faults = 0 /\ call.err = "ENOTDIR"
  /\ PrefixNotDir0
  /\ call.ret.cls = "false" /\ call.thrown = << >>

\* unlink took a regular file away and returned true.
C31_WitnessTrue ==
  /\ Done({"unlink"}) /\ call.faults = 0 /\ Target0 = "file"
  /\ call.ret.cls = "true" /\ Lookup(fs, Components(call.path)) = "none"

\* unlink of a directory: false and an exception.
C31_WitnessThrown ==
  /\ Done({"unlink"}) /\ call.faults = 0 /\ Target0 = "dir"
  /\ call.ret.cls = "false" /\ Len(call.thrown) = 1




Alone(i) == \A j \in Procs \ {i} : mk[j].pc = "idle"

\* Caller i's call has returned, with no syscall made to fail.
MkDone(i) == mk[i].pc = "done" /\ mk[i].faults = 0

\* Caller i's target and all its prefixes are directories.
TargetIsDir(i) == PreOf(fs, mk[i].path) = "dir"

\* Caller i's call threw exactly one exception, for errno code.
MkThrew(i, code) ==
  /\ Len(mk[i].thrown) = 1
  /\ mk[i].thrown[1].code = code
  /\ mk[i].thrown[1].msg.file = mk[i].path

\* C3 as stated: a lone mkdirs call without syscall faults on a relative or
\* absolute path whose existing prefixes are all directories throws
\* nothing and leaves the target and its prefixes directories.
C3_Original ==
  \A i \in Procs :
    (MkDone(i) /\ Alone(i) /\ mk[i].pre \in {"none", "dir"})
      => (mk[i].thrown = << >> /\ TargetIsDir(i))

\* C4 as stated: with only directories in the filesystem, no concurrent
\* mkdirs call (without syscall faults) throws, and its target is a
\* directory when it returns.
C4_Original ==
  \A i \in Procs :
    (MkDone(i) /\ \A n \in Nodes : fs[n] \in {"none", "dir"})
      => (mk[i].thrown = << >> /\ TargetIsDir(i))

\* C5: a mkdirs call (without syscall faults) whose target is a directory
\* when it is called returns after its first stat: it calls no mkdir,
\* creates nothing and throws nothing.
C5_EarlyOut ==
  \A i \in Procs :
    (mk[i].pc # "idle" /\ mk[i].pre = "dir" /\ mk[i].faults = 0)
      => /\ mk[i].pc \in {"stat0", "done"}
         /\ mk[i].nmkdir = 0 /\ mk[i].ncreated = 0
         /\ mk[i].thrown = << >>
         /\ mk[i].pc = "done" => mk[i].nstat = 1

\* mkdirs called again on a path that an earlier call created.
C5_Witness ==
  \E i, j \in Procs :
    /\ i # j /\ MkDone(i) /\ MkDone(j) /\ mk[i].path = mk[j].path
    /\ mk[i].ncreated > 1 /\ mk[i].thrown = << >>
    /\ mk[j].pre = "dir" /\ mk[j].nstat = 1 /\ mk[j].nmkdir = 0
    /\ mk[j].thrown = << >>

\* C6 as stated: a lone mkdirs call (without syscall faults) whose target or
\* one of its proper prefixes exists as a non-directory throws for ENOTDIR
\* and creates nothing.
C6_Original ==
  \A i \in Procs :
    (MkDone(i) /\ Alone(i)
       /\ mk[i].pre \in {"file", "lnk_file", "lnk_dangling"})
      => (MkThrew(i, "ENOTDIR") /\ mk[i].ncreated = 0)

\* C6 amended: such a call throws and creates nothing; the code is ENOTDIR
\* when the entry in the way is a regular file or a symlink to one, and
\* ENOENT when it is a dangling symlink.
C6_Blocked ==
  \A i \in Procs :
    (MkDone(i) /\ Alone(i)
       /\ mk[i].pre \in {"file", "lnk_file", "lnk_dangling"})
      => /\ mk[i].ncreated = 0
         /\ fs \in FsStates
         /\ IF mk[i].pre = "lnk_dangling" THEN MkThrew(i, "ENOENT")
            ELSE MkThrew(i, "ENOTDIR")

\* mkdirs("a/b/c") with "a/b" a regular file.
C6_Witness ==
  \E i \in Procs :
    /\ MkDone(i) /\ Alone(i) /\ mk[i].path = RelPath(3)
    /\ fs[NodeAt(2)] = "file" /\ mk[i].pre = "file"
    /\ MkThrew(i, "ENOTDIR")

\* mkdirs on relative paths: what C3 and C4 state holds for them.
MkdirsRelativeOk ==
  \A i \in Procs :
    (MkDone(i) /\ mk[i].path \in RelPaths
       /\ PreOf(fs, mk[i].path) \in {"none", "dir"})
      => (mk[i].thrown = << >> /\ TargetIsDir(i))

\* mkdirs on absolute paths whose first component existed as a directory.
MkdirsAbsoluteOk ==
  \A i \in Procs :
    (MkDone(i) /\ mk[i].path \in AbsPaths
       /\ PreOf(fs, mk[i].path) \in {"none", "dir"}
       /\ mk[i].thrown # << >>)
      => (mk[i].nmkdir = 1 /\ mk[i].p = 0 /\ MkThrew(i, "ENOENT"))

\* C20: with other actors creating entries along the path and nothing
\* deleted, a mkdirs call that has returned without throwing has made at
\* least one syscall and leaves its target, and every prefix of it, a
\* directory; when a non-directory stands anywhere along the path at the
\* return, the call has thrown.
C20_NoSilentSuccess ==
  (mk[1].pc = "done" /\ mk[1].thrown = << >>) =>
    /\ TargetIsDir(1)
    /\ mk[1].nstat + mk[1].nmkdir >= 1

\* The target did not exist at the call, another actor made it a
\* directory before the last mkdir, which failed with EEXIST, and the stat
\* after it found the directory: success, with nothing created.
C20_Witness ==
  /\ mk[1].pc = "done" /\ mk[1].thrown = << >>
  /\ mk[1].pre = "none" /\ mk[1].path = RelPath(2)
  /\ mk[1].ncreated = 0 /\ mk[1].nmkdir >= 1
  /\ TargetIsDir(1)

\* A regular file was put at the target during the call: ENOTDIR.
C20_WitnessFile ==
  /\ mk[1].pc = "done" /\ mk[1].pre = "none"
  /\ Lookup(fs, Components(mk[1].path)) = "file"
  /\ mk[1].nmkdir >= 1
  /\ MkThrew(1, "ENOTDIR")

C26_EintrSurfaces ==
  [][/\ (mk[1].inj = "none" /\ mk'[1].inj = "EINTR") =>
          /\ mk'[1].pc = "done"
          /\ mk'[1].thrown =
               <<[kind |-> "Interrupted", code |-> "EINTR",
                  msg |-> [file |-> mk[1].path, text |-> "EINTR"]]>>
          /\ mk'[1].nstat + mk'[1].nmkdir = mk[1].nstat + mk[1].nmkdir + 1
          /\ mk'[1].ncreated = mk[1].ncreated
          /\ fs' = fs
     /\ mk[1].inj = "EINTR" =>
          /\ mk'[1].nstat = mk[1].nstat /\ mk'[1].nmkdir = mk[1].nmkdir
          /\ mk'[1].thrown = mk[1].thrown
          /\ fs' = fs]_vars

\* A mkdir of mkdirs was interrupted after an earlier one had created a
\* directory: the call threw for EINTR and left that directory.
C26_Witness ==
  /\ mk[1].pc = "done" /\ mk[1].inj = "EINTR"
  /\ mk[1].ncreated >= 1 /\ mk[1].nmkdir = mk[1].ncreated + 1
  /\ MkThrew(1, "EINTR")

\* A stat of the first loop was interrupted.
C26_WitnessBack ==
  /\ mk[1].pc = "done" /\ mk[1].inj = "EINTR"
  /\ mk[1].nstat >= 2 /\ mk[1].nmkdir = 0

\* The stat after the last mkdir's EEXIST was interrupted.
C26_WitnessRestat ==
  /\ mk[1].pc = "done" /\ mk[1].inj = "EINTR"
  /\ mk[1].pre = "lnk_dangling" /\ mk[1].nmkdir >= 1
  /\ mk[1].nstat >= 2 /\ mk[1].ncreated = 0
  /\ mk[1].path = RelPath(1)



(***************************************************************************)
(* Properties of readdir (under SpecReaddir).                              *)
(***************************************************************************)
\* The call has returned a listing.
RdListed == rd.pc = "done" /\ rd.ret.cls = "Dirents"

\* The names of a stream other than . and .., in the stream's order.
WithoutDots(stream) == SelectSeq(stream, LAMBDA n : n \notin {Dot, DotDot})

\* C10: when readdir succeeds and no fetch error was swallowed, the names
\* returned are the names of the directory stream other than "." and "..",
\* each exactly once and in the stream's order; a name that merely begins
\* with a dot, or with two dots, is returned like any other.
C10_Listing ==
  (RdListed /\ rd.swallowed = 0) =>
    /\ rd.ret.names = WithoutDots(rd.all)
    /\ \A i, j \in 1..Len(rd.ret.names) :
         rd.ret.names[i] = rd.ret.names[j] => i = j

\* A listing without swallowed errors of a directory that holds ".", a
\* name that begins with a dot and a name that begins with two dots.
C10_Witness ==
  /\ RdListed
  /\ rd.swallowed = 0
  /\ \E i \in 1..Len(rd.all) : rd.all[i] = Dot
  /\ \E i \in 1..Len(rd.ret.names) : rd.ret.names[i] = <<".", "h">>
  /\ \E i \in 1..Len(rd.ret.names) : rd.ret.names[i] = <<".", ".", "x">>

\* C11: a readdir call that returns a listing has opened the directory,
\* read it to the end of the stream and closed it with success or EINTR,
\* and has thrown nothing; every other call that returns has thrown one
\* exception and returns NULL, whatever entries it had read.
C11_AllOrNothing ==
  rd.pc = "done" =>
    IF rd.ret.cls = "Dirents"
    THEN /\ rd.dirh = "closed" /\ rd.eof
         /\ rd.closeerr \in {"0", "EINTR"}
         /\ rd.thrown = << >>
    ELSE /\ Len(rd.thrown) = 1
         /\ rd.ret = NullDirents

\* closedir fails with EIO after two entries were read: nothing is returned.
C11_Witness ==
  /\ rd.pc = "done"
  /\ rd.eof /\ rd.closeerr = "EIO"
  /\ Len(rd.entries) = 2
  /\ rd.ret = NullDirents
  /\ Len(rd.thrown) = 1 /\ rd.thrown[1].code = "EIO"

\* A call of readdir(3) in the fetch loop fails with errno e in this step.
RdFetchFailed(e) ==
  /\ rd.pc = "readdir"
  /\ rd'.faults = rd.faults + 1
  /\ rd'.errno = e
  /\ rd'.dirh # rd.dirh \/ rd'.swallowed # rd.swallowed

\* C22: a fetch that fails with EINTR or EIO leaves the call in the fetch
\* loop with the names and types collected so far untouched and nothing
\* thrown; a fetch that fails with another errno throws one exception for
\* that errno, closes the directory once and returns NULL.
C22_FetchErrors ==
  [][\A e \in RdFaultErrnos :
       RdFetchFailed(e) =>
         IF e \in {"EINTR", "EIO"}
         THEN /\ rd'.pc = "readdir" /\ rd'.dirh = "open"
              /\ rd'.entries = rd.entries /\ rd'.types = rd.types
              /\ rd'.thrown = rd.thrown /\ rd'.ret = rd.ret
         ELSE /\ rd'.pc = "done" /\ rd'.ret = NullDirents
              /\ rd'.dirh = "closed" /\ rd'.closes = rd.closes + 1
              /\ Len(rd'.thrown) = 1
              /\ rd'.thrown[1].code = e
              /\ rd'.thrown[1].kind = ExceptionClass(e)]_vars

\* An I/O error was just swallowed after a name had been collected: the
\* call is back at the head of the fetch loop with that name.
C22_Witness ==
  /\ rd.pc = "readdir" /\ rd.dirh = "open"
  /\ rd.swallowed = 1 /\ rd.errno = "EIO"
  /\ rd.entries # << >> /\ rd.thrown = << >>

\* A fetch failed with EBADF after a name had been collected.
C22_WitnessHard ==
  /\ rd.pc = "done" /\ rd.ret = NullDirents
  /\ rd.entries # << >> /\ rd.errno = "EBADF" /\ rd.closeerr = "none"
  /\ rd.closes = 1

\* C23: errno is cleared before every fetch, so whenever readdir(3) gives
\* NULL at the end of the stream without failing, whatever errno an earlier
\* fstatat or swallowed fetch left behind, the call leaves the loop for
\* closedir with nothing thrown; and the loop is left as at the end of the
\* stream only then.
C23_EofOnlyByClearedErrno ==
  [][/\ (rd.pc = "readdir" /\ rd.dir = << >> /\ rd'.faults = rd.faults) =>
          /\ rd'.pc = "closedir" /\ rd'.eof
          /\ rd'.thrown = << >> /\ rd'.entries = rd.entries
     /\ (rd'.eof /\ ~rd.eof) =>
          /\ rd.pc = "readdir" /\ rd.dir = << >>
          /\ rd'.faults = rd.faults]_vars

\* The stat of the last entry, a dangling link, failed with ENOENT, and the
\* end of the stream that followed was taken as such.
C23_Witness ==
  /\ rd.eof /\ rd.thrown = << >>
  /\ rd.all # << >> /\ rd.last.name = rd.all[Len(rd.all)]
  /\ rd.last.st = "ENOENT"

\* A fetch at the end of the stream failed with EIO, was swallowed, and the
\* next fetch was taken as the end of the stream.
C23_WitnessSwallowed ==
  /\ rd.eof /\ rd.thrown = << >>
  /\ rd.swallowed = 1 /\ rd.entries = WithoutDots(rd.all)
  /\ rd.entries # << >>

\* The type the table gives the entry fetched last: its d_type, whether
\* links are followed, and what the stat relative to the directory gave
\* ("none" when no stat was made, the errno when it failed).
TypeByTable(d_type, follow, st) ==
  IF d_type = "DT_REG" THEN IF st = "none" THEN "f" ELSE "stat"
  ELSE IF d_type = "DT_DIR" THEN IF st = "none" THEN "d" ELSE "stat"
  ELSE IF d_type = "DT_LNK" /\ ~follow
       THEN IF st = "none" THEN "s" ELSE "stat"
  ELSE IF d_type \in {"DT_LNK", "DT_UNKNOWN"}
       THEN IF st = "none" THEN "nostat"
            ELSE IF st = "file" THEN "f"
            ELSE IF st = "dir" THEN "d"
            ELSE "?"
  ELSE IF st = "none" THEN "?" ELSE "stat"

\* C24: the type stored for an entry is the one the table gives (regular
\* and directory hints as they are, a link hint as a link unless links are
\* followed, a followed link or an unknown hint by a stat relative to the
\* directory, regular or directory when the stat says so and unknown
\* otherwise or when it fails, any other hint unknown without a stat); a
\* failed stat is never thrown; no entry is a link when links are followed.
C24_TypeTable ==
  /\ rd.last.d_type # "none" =>
       /\ rd.types # << >>
       /\ rd.types[Len(rd.types)] =
            TypeByTable(rd.last.d_type, rd.read_types = "f", rd.last.st)
       /\ Len(rd.types) = Len(rd.entries)
       /\ rd.entries[Len(rd.entries)] = rd.last.name
  /\ (rd.pc = "readdir" /\ rd.last.st \notin {"none", "file", "dir", "fifo"}
        /\ rd.errno = rd.last.st) => rd.thrown = << >>
  /\ \A i \in 1..Len(rd.thrown) :
       /\ rd.thrown[i].code # "ENOSYS"
       /\ rd.thrown[i].code = "ENOENT" => rd.dirh = "null"
  /\ rd.read_types = "f" =>
       \A i \in 1..Len(rd.types) : rd.types[i] # "s"

\* Links were followed, the last entry was a dangling link whose stat
\* failed, and the listing was returned with that entry's type unknown.
C24_Witness ==
  /\ RdListed /\ rd.read_types = "f"
  /\ rd.last.d_type = "DT_LNK" /\ rd.last.st = "ENOENT"
  /\ rd.ret.types # << >>
  /\ rd.ret.types[Len(rd.ret.types)] = "?"

\* Links were not followed and a link hint was reported as a link.
C24_WitnessLink ==
  /\ RdListed /\ rd.read_types = "d"
  /\ rd.last.d_type = "DT_LNK" /\ rd.last.st = "none"
  /\ rd.ret.types[Len(rd.ret.types)] = "s"

\* An unknown hint for a link to a regular file, links followed or not,
\* was resolved by the stat to regular.
C24_WitnessUnknown ==
  /\ RdListed
  /\ rd.last.d_type = "DT_UNKNOWN" /\ rd.last.name = <<".", ".", "x">>
  /\ rd.last.st = "file"
  /\ rd.ret.types[Len(rd.ret.types)] = "f"

\* A hint that is none of regular, directory, link or unknown.
C24_WitnessOther ==
  /\ RdListed
  /\ rd.last.d_type = "DT_FIFO" /\ rd.last.st = "none"
  /\ rd.ret.types[Len(rd.ret.types)] = "?"

\* C29 as stated: path_chars is released once on every way out of readdir
\* and is never read after its release, so that every exception of the
\* call names the path of the call.
C29_Original ==
  /\ rd.pc \in {"readdir", "closedir", "build", "aborted", "done"} =>
       rd.path_chars = "released"
  /\ ~rd.read_released
  /\ \A i \in 1..Len(rd.thrown) :
       rd.thrown[i].kind # "AsyncException" => rd.thrown[i].msg.file = RdPath

\* The part of C29 that holds: path_chars is released before the first
\* fetch and on the way out of a failed opendir, and the exception of a
\* failed opendir, built before the release, names the path.
C29_ReleasedOnce ==
  /\ rd.pc \in {"readdir", "closedir", "build", "aborted", "done"} =>
       rd.path_chars = "released"
  /\ rd.pc \in {"idle", "opendir"} => rd.path_chars = "live"
  /\ (rd.pc = "done" /\ rd.dirh = "null") =>
       /\ ~rd.read_released
       /\ Len(rd.thrown) = 1 /\ rd.thrown[1].msg.file = RdPath

\* Every read of path_chars after its release is the one that builds the
\* message of a fetch or close failure, and every such failure reads it.
C29_ReadOnlyOnFailure ==
  rd.read_released <=>
    /\ rd.pc = "done" /\ rd.dirh = "closed"
    /\ Len(rd.thrown) = 1 /\ rd.thrown[1].kind # "AsyncException"

\* The terminal states of a readdir call.
RdSuccess == rd.pc = "done" /\ rd.ret.cls = "Dirents" /\ rd.thrown = << >>
RdFailed == rd.pc = "done" /\ rd.ret.cls = "null" /\ Len(rd.thrown) = 1

\* opendir and readdir do not fail forever with the errnos their loops
\* repeat on: an opendir that can succeed and a fetch that can give an
\* entry or the end of the stream eventually do.
RdNotInterruptedForever ==
  /\ WF_vars(RdOpen)
  /\ WF_vars(RdFetchEntry)
  /\ WF_vars(RdFetchEof)

\* C30: a readdir call on a finite stream whose opendir and readdir do not
\* fail forever with EINTR or EIO reaches Success or Failed; a call that
\* never returns is one in which they do.
C30_Terminates ==
  RdNotInterruptedForever => (rd.pc = "opendir" ~> (RdSuccess \/ RdFailed))

\* Termination without the proviso: refuted by an opendir that is
\* interrupted forever.
C30_AlwaysTerminates == rd.pc = "opendir" ~> (RdSuccess \/ RdFailed)

\* A listing was returned after opendir and a fetch had been interrupted.
C30_Witness ==
  /\ RdSuccess /\ rd.swallowed >= 1 /\ rd.spin = 1
  /\ rd.ret.names # << >>

\* A call failed after a fetch had been interrupted.
C30_WitnessFailed ==
  /\ RdFailed /\ rd.dirh = "closed" /\ rd.swallowed >= 1 /\ rd.spin = 1

\* The entry fetched last is a symbolic link whose type was asked for
\* without links being followed.
RdLastIsUnfollowedLink ==
  /\ rd.read_types = "d"
  /\ rd.last.d_type # "none"
  /\ KindOf(rd.last.name) \in {"lnk_file", "lnk_dangling"}

\* C32 as stated: when types are asked for without links being followed, an
\* entry that is a symbolic link is given the type symlink whether its
\* d_type is DT_LNK or DT_UNKNOWN.
C32_Original ==
  RdLastIsUnfollowedLink => rd.types[Len(rd.types)] = "s"

\* The part of C32 that holds: with d_type DT_LNK the link is a symlink.
C32_HintedLinkIsLink ==
  (RdLastIsUnfollowedLink /\ rd.last.d_type = "DT_LNK") =>
    rd.types[Len(rd.types)] = "s" /\ rd.last.st = "none"

\* What the code does with d_type DT_UNKNOWN: the link is followed by the
\* stat, and the entry gets the type of what the link leads to, regular for
\* a link to a file and unknown for a dangling link, never symlink.
C32_UnknownLinkIsFollowed ==
  (RdLastIsUnfollowedLink /\ rd.last.d_type = "DT_UNKNOWN") =>
    /\ rd.last.st # "none"
    /\ rd.types[Len(rd.types)] =
         (IF rd.last.st = "file" THEN "f"
          ELSE IF rd.last.st = "dir" THEN "d" ELSE "?")
    /\ rd.types[Len(rd.types)] # "s"

\* C33: when types are asked for, as many types as names have been stored
\* at every point of the call, the CHECK before the result is built never
\* fails and the result holds a type for each name; when they are not
\* asked for, no type is ever stored and no stat made for one.
C33_TypesMatchNames ==
  /\ rd.pc # "aborted"
  /\ rd.read_types # "n" => Len(rd.types) = Len(rd.entries)
  /\ (RdListed /\ rd.read_types # "n") =>
       /\ rd.ret.typed
       /\ Len(rd.ret.types) = Len(rd.ret.names)
       /\ rd.ret.names = rd.entries
  /\ rd.read_types = "n" =>
       /\ rd.types = << >>
       /\ rd.last.d_type = "none" /\ rd.last.st = "none"
       /\ rd.pc \in {"readdir", "closedir", "build"} =>
            rd.errno \notin {"ENOENT", "ENOSYS"}
       /\ RdListed => ~rd.ret.typed /\ rd.ret.types = << >>

\* A typed listing of a directory that holds "." and a link: fewer names
\* than the stream gave, and a type for each.
C33_Witness ==
  /\ RdListed /\ rd.read_types = "f"
  /\ \E i \in 1..Len(rd.all) : rd.all[i] = Dot
  /\ \E i \in 1..Len(rd.ret.names) : rd.ret.names[i] = <<"l">>
  /\ Len(rd.ret.types) = Len(rd.ret.names)
  /\ Len(rd.ret.names) < Len(rd.all)

\* A listing without types of a directory that holds a link.
C33_WitnessNoTypes ==
  /\ RdListed /\ rd.read_types = "n"
  /\ \E i \in 1..Len(rd.ret.names) : rd.ret.names[i] = <<"l">>
  /\ rd.ret.types = << >>








(***************************************************************************)
(* Properties of the handles of readdir and md5sumAsBytes (under           *)
(* SpecHandles).                                                           *)
(***************************************************************************)
\* C12: in readdir and in md5sumAsBytes the handle is open, and was never
\* closed, at every step that uses it, and once the call is past its last
\* use of the handle (readdir builds its result or has returned,
\* md5sumAsBytes has returned) a handle that was opened has been closed by
\* exactly one close call, and no close was called without a handle.
C12_ClosedOnce ==
  /\ rd.pc \in {"idle", "opendir"} => rd.dirh = "null" /\ rd.closes = 0
  /\ rd.pc \in {"readdir", "closedir"} => rd.dirh = "open" /\ rd.closes = 0
  /\ rd.pc \in {"build", "aborted", "done"} =>
       \/ rd.dirh = "closed" /\ rd.closes = 1
       \/ rd.dirh = "null" /\ rd.closes = 0
  /\ md.pc \in {"idle", "open"} => md.fd = "none" /\ md.closes = 0
  /\ md.pc \in {"read", "close"} => md.fd = "open" /\ md.closes = 0
  /\ md.pc = "done" =>
       \/ md.fd = "closed" /\ md.closes = 1
       \/ md.fd = "none" /\ md.closes = 0

\* md5sumAsBytes has returned after a read in the middle of the file
\* failed with EIO: the descriptor was closed, once.
C12_Witness ==
  /\ md.pc = "done"
  /\ 0 < md.off /\ md.off < Len(md.content)
  /\ Len(md.thrown) = 1 /\ md.thrown[1].code = "EIO"
  /\ md.fd = "closed" /\ md.closes = 1

(***************************************************************************)
(* Properties of md5sumAsBytes (under SpecMd5).                            *)
(***************************************************************************)
\* C14: when md5sumAsBytes succeeds on a file that is not modified, the
\* bytes given to the digest are the file's bytes, in order and each once,
\* whatever reads were short or interrupted; the bytes returned are the
\* digest of the content, and a second successful call on the same
\* content returns the same bytes as the first.
C14_DigestOfContent ==
  (md.pc = "done" /\ md.res = "0") =>
    /\ md.fed = md.content
    /\ md.ret = Finish(Update(0, md.content))
    /\ (md.ncalls = 2 /\ md.first.cls = "bytes") => md.ret = md.first

\* Two successful calls on a file longer than the buffer, the second with
\* an interrupted syscall.
C14_Witness ==
  /\ md.pc = "done" /\ md.res = "0"
  /\ md.ncalls = 2 /\ md.first.cls = "bytes"
  /\ Len(md.content) > BufSize
  /\ md.faults > 0 /\ md.errno = "EINTR"

\* Two successful calls on an empty file.
C14_WitnessEmpty ==
  /\ md.pc = "done" /\ md.res = "0"
  /\ md.ncalls = 2 /\ md.first.cls = "bytes"
  /\ md.content = << >>

\* C25: a read that fails with an errno other than EINTR ends the call at
\* once with one exception for that errno, whatever the close that follows
\* gives; a digest is returned only when the reads reached the end of the
\* file, no read failed so and the close succeeded or failed with EINTR.
C25_ReadErrorWins ==
  md.pc = "done" =>
    /\ md.readerr # "none" =>
         /\ md.res = "-1" /\ md.ret.cls = "null"
         /\ Len(md.thrown) = 1
         /\ md.thrown[1].code = md.readerr
         /\ md.thrown[1].kind = ExceptionClass(md.readerr)
         /\ md.fed = SubSeq(md.content, 1, md.off)
    /\ md.ret.cls = "bytes" =>
         /\ md.readerr = "none"
         /\ md.off = Len(md.content)
         /\ md.closeerr \in {"0", "EINTR"}
         /\ md.thrown = << >>
    /\ (md.closeerr \notin {"none", "0", "EINTR"} /\ md.readerr = "none") =>
         /\ md.ret.cls = "null"
         /\ Len(md.thrown) = 1 /\ md.thrown[1].code = md.closeerr

\* A read in the middle of the file failed with EIO and the close after it
\* with EBADF: the call threw for EIO.
C25_Witness ==
  /\ md.pc = "done"
  /\ md.readerr = "EIO" /\ md.closeerr = "EBADF"
  /\ 0 < md.off /\ md.off < Len(md.content)
  /\ Len(md.thrown) = 1 /\ md.thrown[1].code = "EIO"

\* The close after a read to the end of the file failed with EIO.
C25_WitnessClose ==
  /\ md.pc = "done" /\ md.readerr = "none" /\ md.closeerr = "EIO"
  /\ md.off = Len(md.content) /\ md.content # << >>
  /\ md.ret.cls = "null"


(***************************************************************************)
(* Properties of getxattr and lgetxattr (under SpecXattr).                 *)
(***************************************************************************)
\* The call's path leads to a file and no failure was injected.
XaFound ==
  /\ xa.faults = 0
  /\ StatSys(fs, xa.path, xa.follow).err = "0"

\* C17: getxattr and lgetxattr return null and throw nothing when the
\* attribute is absent; return exactly the attribute's bytes and throw
\* nothing when it is present and fits the buffer; and for every other
\* failure of the getxattr function return null and throw one exception,
\* classified by the errno, whose message names the path.
C17_Getxattr ==
  xa.pc = "done" =>
    IF XaFound /\ ~xa.attr.present
    THEN xa.ret.cls = "null" /\ xa.thrown = << >>
    ELSE IF XaFound /\ Len(xa.attr.bytes) <= ValueSize
    THEN /\ xa.ret = [cls |-> "bytes", bytes |-> xa.attr.bytes]
         /\ xa.thrown = << >>
    ELSE /\ xa.ret.cls = "null"
         /\ xa.errno # "0"
         /\ xa.thrown = <<PostFileException(xa.errno, xa.path)>>
         /\ xa.thrown[1].kind = ExceptionClass(xa.errno)
         /\ xa.thrown[1].msg.file = xa.path

\* An absent attribute of an existing file read through a symbolic link.
C17_Witness ==
  /\ xa.pc = "done" /\ XaFound /\ ~xa.attr.present
  /\ xa.follow /\ Lookup(fs, Components(xa.path)) = "lnk_file"
  /\ xa.attr_not_found /\ xa.size = -1
  /\ xa.ret.cls = "null" /\ xa.thrown = << >>

(***************************************************************************)
(* Properties of rename (under SpecRename).                                *)
(***************************************************************************)
\* String sub occurs in string str.
Contains(str, sub) ==
  \E i \in 0..(Len(str) - Len(sub)) : SubSeq(str, i + 1, i + Len(sub)) = sub

\* The rename call has returned and its old path was not there when it was
\* called, with no failure injected.
RenOldMissing ==
  /\ ren.pc = "done" /\ ren.faults = 0
  /\ \/ WalkErr(ren.fs0, ren.oldpath) # "0"
     \/ Lookup(ren.fs0, Components(ren.oldpath)) = "none"

\* Every failure of rename throws one exception, classified by the errno,
\* whose message holds both paths, and every success throws nothing.
RenMessageHasBoth ==
  ren.pc = "done" =>
    IF ren.err = "0" THEN ren.thrown = << >>
    ELSE /\ Len(ren.thrown) = 1
         /\ ren.thrown[1].code = ren.err
         /\ ren.thrown[1].kind = ExceptionClass(ren.err)
         /\ Contains(ren.thrown[1].msg.file, ren.oldpath)
         /\ Contains(ren.thrown[1].msg.file, ren.newpath)

\* C18 as stated: rename of an old path that is not there throws NotFound
\* with both paths in the message and leaves the filesystem unchanged; and
\* every failure's message holds both paths.
C18_Original ==
  /\ RenMessageHasBoth
  /\ RenOldMissing =>
       /\ Len(ren.thrown) = 1 /\ ren.thrown[1].kind = "NotFound"
       /\ fs = ren.fs0

\* C18 amended: rename of an old path that is not there throws, with both
\* paths in the message, and leaves the filesystem unchanged; the failure
\* is NotFound (ENOENT) when every proper prefix of both paths is a
\* directory, and otherwise ENOENT or ENOTDIR, the latter classified
\* GenericIO; and every failure's message holds both paths.
C18_RenameMissing ==
  /\ RenMessageHasBoth
  /\ ren.pc = "done" /\ ren.err # "0" => fs = ren.fs0
  /\ RenOldMissing =>
       /\ Len(ren.thrown) = 1
       /\ ren.err \in {"ENOENT", "ENOTDIR"}
       /\ ren.err = "ENOTDIR" => ren.thrown[1].kind = "GenericIO"
       /\ ren.err = "ENOENT" => ren.thrown[1].kind = "NotFound"
       /\ (WalkErr(ren.fs0, ren.oldpath) = "0"
             /\ WalkErr(ren.fs0, ren.newpath) = "0") => ren.err = "ENOENT"
       /\ fs = ren.fs0

\* rename("a", "b") with "a" missing and "b" a directory.
C18_Witness ==
  /\ RenOldMissing
  /\ ren.oldpath = <<"a">> /\ ren.newpath = <<"b">>
  /\ ren.fs0[Components(<<"b">>)] = "dir"
  /\ ren.err = "ENOENT" /\ ren.thrown[1].kind = "NotFound"
  /\ ren.thrown[1].msg.file = <<"a", " ", "-", ">", " ", "b">>
====
